---------------------------- MODULE Spec2Model ----------------------------
(***************************************************************************)
(* Model of the Hansard transcript parser (src/src/hansard/parser.py) and  *)
(* of the part identifiers (src/src/hansard/entities/speech.py).           *)
(*                                                                         *)
(* Strings are sequences of one-character strings, so that strip(), the    *)
(* regular expression PATTERN, str() of an integer and "_".join() are      *)
(* computed as the code computes them.  Python's None is the value None.   *)
(*                                                                         *)
(* The document is read in a single pass: each step of the traversal draws *)
(* the tag it visits next (what find()/find_all() return for it) from a    *)
(* small set of tags.                                                      *)
(***************************************************************************)
EXTENDS Integers, Sequences, FiniteSets, TLC

\* ------------------------------------------------------------------ bounds
\* Nodes (debates, subdebates, speeches) one document holds.
MaxNodes == 5
\* Nodes one document of the deep specification holds.
MaxDeepNodes == 6
\* Paragraphs one speech holds in the per-paragraph specification.
MaxParas == 4
\* <talker> tags the talker extraction scans.
MaxTalkers == 3
\* Nodes one document holds when parse() is run over it twice.
MaxRerunNodes == 4
\* Segments one list handed to Speech.from_parts holds.
MaxParts == 3
\* Documents the parts collection holds.
MaxStored == 4
\* Files one call of parse_many is handed, and the nodes each holds.
MaxFiles == 2
MaxBatchNodes == 4
\* events handed to LocalPublisher.publish in the events specification
MaxEvents == 2

\* ----------------------------------------------------------------- strings
\* Python's None (for every optional string field).
None == <<"None">>
\* None of an optional list of strings (bill_ids).
NoneList == <<None>>
\* None of an optional integer field (subdebate_1_seq, subdebate_2_seq).
NoneInt == -1
\* "no open segment yet": prev_speech_part is None.
NoPart == [absent |-> TRUE]

Whitespace == {" ", "\n"}
Digits == <<"0", "1", "2", "3", "4", "5", "6", "7", "8", "9">>
IsDigit(c) == \E i \in 1..Len(Digits) : Digits[i] = c
NL2 == <<"\n", "\n">>

RECURSIVE LStrip(_)
LStrip(s) ==
    IF s # <<>> /\ Head(s) \in Whitespace THEN LStrip(Tail(s)) ELSE s

RECURSIVE RStrip(_)
RStrip(s) ==
    IF s # <<>> /\ s[Len(s)] \in Whitespace
    THEN RStrip(SubSeq(s, 1, Len(s) - 1))
    ELSE s

\* str.strip()
Strip(s) == RStrip(LStrip(s))

\* tag.text.strip() if tag else None
TextStripOrNone(raw) == IF raw = None THEN None ELSE Strip(raw)

\* str(n) of a non-negative integer
RECURSIVE ToStr(_)
ToStr(n) ==
    IF n < Len(Digits)
    THEN <<Digits[n + 1]>>
    ELSE ToStr(n \div Len(Digits)) \o <<Digits[(n % Len(Digits)) + 1]>>

\* sep.join(strs)
RECURSIVE Join(_, _)
Join(strs, sep) ==
    IF strs = <<>> THEN <<>>
    ELSE IF Len(strs) = 1 THEN strs[1]
    ELSE strs[1] \o sep \o Join(Tail(strs), sep)

RECURSIVE Concat(_)
Concat(strs) == IF strs = <<>> THEN <<>> ELSE Head(strs) \o Concat(Tail(strs))

\* ------------------------------------------------------------- PATTERN
\* Whether "(dd:dd)" starts at position j of s.
TimeAt(s, j) ==
    /\ j + 6 <= Len(s)
    /\ s[j] = "("
    /\ IsDigit(s[j + 1]) /\ IsDigit(s[j + 2])
    /\ s[j + 3] = ":"
    /\ IsDigit(s[j + 4]) /\ IsDigit(s[j + 5])
    /\ s[j + 6] = ")"

\* Length of "(?:\(\d{2}:\d{2}\))?:" matched at position j of s, 0 if none.
TailAt(s, j) ==
    IF TimeAt(s, j) /\ j + 7 <= Len(s) /\ s[j + 7] = ":" THEN 8
    ELSE IF j <= Len(s) /\ s[j] = ":" THEN 1
    ELSE 0

\* The positions j at which a match starting at i can end its lazy ".*?"
\* ("." does not match a newline).
LazyStops(s, i) ==
    {j \in i..Len(s) : TailAt(s, j) > 0 /\ \A k \in i..(j - 1) : s[k] # "\n"}

Min(S) == CHOOSE x \in S : \A y \in S : x <= y

\* re.sub(PATTERN, "", s, count=1): the leftmost match, its ".*?" as short
\* as possible, is removed.
SubPattern(s) ==
    LET starts == {i \in 1..Len(s) : LazyStops(s, i) # {}}
    IN  IF starts = {} THEN s
        ELSE LET i == Min(starts)
                 j == Min(LazyStops(s, i))
             IN  SubSeq(s, 1, i - 1) \o SubSeq(s, j + TailAt(s, j), Len(s))

\* re.sub(PATTERN, "", p.get_text(strip=True), count=1).strip()
CleanText(text) == Strip(SubPattern(text))


\* ------------------------------------------------------- part identifiers
\* _none_if_none(val), then str(): an optional sequence number as a string.
NoneIfNone(val) == IF val = NoneInt THEN <<"n", "o", "n", "e">> ELSE ToStr(val)

\* getattr(self, name, "none"), then str(): the field if the part has it.
GetAttrOrNone(part, name) ==
    IF name \in DOMAIN part THEN ToStr(part[name]) ELSE <<"n", "o", "n", "e">>

\* Mutant of GetId: the part_seq is never appended.
GetId_NoPartSeq(part, type) ==
    Join(<< part.date, part.house, part.chamber, ToStr(part.debate_seq),
            NoneIfNone(part.subdebate_1_seq),
            NoneIfNone(part.subdebate_2_seq),
            GetAttrOrNone(part, "speech_seq") >>,
         <<"_">>)

\* Part._get_id(type), type one of "part", "speech".
GetId(part, type) ==
    LET hashable == << part.date,
                       part.house,
                       part.chamber,
                       ToStr(part.debate_seq),
                       NoneIfNone(part.subdebate_1_seq),
                       NoneIfNone(part.subdebate_2_seq),
                       GetAttrOrNone(part, "speech_seq") >>
    IN  Join(IF type = "part"
             THEN Append(hashable, GetAttrOrNone(part, "part_seq"))
             ELSE hashable,
             <<"_">>)

\* Part.part_id
PartId(part) == GetId(part, "part")

\* SpeechPart.speech_id
SpeechId(part) == GetId(part, "speech")

\* ------------------------------------------------------------------ talkers
\* A <talker> tag is NoTag when find("talker") (or find("talk.start")) finds
\* nothing, else the raw text of its children (None for a missing child).
NoTag == [missing |-> TRUE]
\* The outcome of a call that raises.
Raised == [raised |-> TRUE]

\* extract_talker(talker_tag): the Talker, or Raised (AttributeError on a
\* missing tag, ValueError on a missing or empty name).
ExtractTalker(talker_tag) ==
    IF talker_tag = NoTag THEN Raised
    ELSE LET name == TextStripOrNone(talker_tag.name)
         IN  IF name = None \/ name = <<>> THEN Raised
             ELSE [ id |-> TextStripOrNone(talker_tag.id),
                    name |-> name,
                    electorate |-> TextStripOrNone(talker_tag.electorate),
                    party |-> TextStripOrNone(talker_tag.party) ]

\* [extract_talker(x.find("talker")) for x in speech_tag.find_all(
\* "interjection")]: the list, and whether one of the extractions raised.
RECURSIVE ExtractTalkers(_)
ExtractTalkers(tags) ==
    IF tags = <<>> THEN [raised |-> FALSE, talkers |-> <<>>]
    ELSE LET t == ExtractTalker(Head(tags))
             rest == ExtractTalkers(Tail(tags))
         IN  IF t = Raised \/ rest.raised
             THEN [raised |-> TRUE, talkers |-> <<>>]
             ELSE [raised |-> FALSE, talkers |-> <<t>> \o rest.talkers]

\* `not x` of a stripped text: None or the empty string.
Not(x) == x = None \/ x = <<>>

\* list(set(talkers)): the distinct talkers (Talker.__eq__ and __hash__ are
\* structural); the order of the list is unspecified.
ToSet(talkers) == {talkers[i] : i \in 1..Len(talkers)}

\* Parser.parse_talkers: one iteration of its loop.  An exception of
\* extract_talker leaves the loop and the method.
ParseTalkersStep(st, talker_tag) ==
    IF st.raised THEN st
    ELSE LET talker == ExtractTalker(talker_tag)
         IN  IF talker = Raised THEN [st EXCEPT !.raised = TRUE]
             ELSE [st EXCEPT !.talkers = Append(@, talker)]

\* Parser.parse_talkers over the <talker> tags of a soup: whether it raised
\* and the talkers appended.
RECURSIVE ParseTalkersLoop(_, _)
ParseTalkersLoop(st, talker_tags) ==
    IF talker_tags = <<>> THEN st
    ELSE ParseTalkersLoop(ParseTalkersStep(st, Head(talker_tags)),
                          Tail(talker_tags))

\* Mutant of ExtractTalkersStep: only the name is required.
ExtractTalkersStep_NameOnly(talkers, talker_tag) ==
    LET name == TextStripOrNone(talker_tag.name)
    IN  IF Not(name) THEN talkers
        ELSE Append(talkers, [ id |-> TextStripOrNone(talker_tag.id),
                               name |-> name,
                               electorate |->
                                   TextStripOrNone(talker_tag.electorate),
                               party |-> TextStripOrNone(talker_tag.party) ])

\* Talker.extract_talkers: one iteration of its loop.  A record without
\* one of the four fields is logged and skipped (`continue`).
ExtractTalkersStep(talkers, talker_tag) ==
    LET name == TextStripOrNone(talker_tag.name)
        id_ == TextStripOrNone(talker_tag.id)
        electorate == TextStripOrNone(talker_tag.electorate)
        party == TextStripOrNone(talker_tag.party)
    IN  IF Not(name) \/ Not(id_) \/ Not(electorate) \/ Not(party)
        THEN talkers
        ELSE Append(talkers, [ id |-> id_, name |-> name,
                               electorate |-> electorate, party |-> party ])

\* --------------------------------------------------------------- paragraphs
\* A <p> tag: which marker anchors/spans it holds and its text nodes.
IsInterjection(p) ==
    IF p.member THEN "MEMBER"
    ELSE IF p.office THEN "OFFICE"
    ELSE IF p.general THEN "GENERAL"
    ELSE "NONE"

IsContinuation(p) == p.cont

\* p.get_text(strip=True): every text node stripped, the empty ones dropped,
\* the rest concatenated.
GetText(p) == Concat([i \in 1..Len(p.strings) |-> Strip(p.strings[i])])

\* The SpeechPart(...) constructor calls of parse_speech: the fields taken
\* from the parser's cursor `self`, the others as given.
SpeechPart(self, talker_id, speech_seq, part_seq, speech_part_type, content) ==
    [ date |-> self.date,
      house |-> self.house,
      bill_ids |-> self.bill_ids,
      chamber |-> self.chamber,
      type |-> "speech",
      debate_category |-> self.debate_category,
      debate_seq |-> self.debate_seq,
      subdebate_1_title |-> self.subdebate_1_title,
      subdebate_1_info |-> self.subdebate_1_info,
      subdebate_1_seq |-> self.subdebate_1_seq,
      subdebate_2_title |-> self.subdebate_2_title,
      subdebate_2_info |-> self.subdebate_2_info,
      subdebate_2_seq |-> self.subdebate_2_seq,
      talker_id |-> talker_id,
      speech_seq |-> speech_seq,
      part_seq |-> part_seq,
      speech_part_type |-> speech_part_type,
      speech_content |-> content ]

\* pydantic's validation of the required string fields of a SpeechPart
\* (talker_id, debate_category, subdebate_1_title are declared `str`).
ValidSpeechPart(part) ==
    /\ part.talker_id # None
    /\ part.debate_category # None
    /\ part.subdebate_1_title # None

\* The loop state of parse_speech.
LoopInit ==
    [ raised |-> FALSE, segments |-> <<>>, prev_speech_part |-> NoPart,
      part_seq |-> 0, curr_interjection_ind |-> 0 ]

Raise(st) == [st EXCEPT !.raised = TRUE]

\* prev_speech_part.speech_content += "\n\n" + p.get_text(strip=True)
Merge(st, p) ==
    [st EXCEPT !.prev_speech_part.speech_content = @ \o NL2 \o GetText(p)]

\* segments.append(prev_speech_part); part_seq += 1;
\* prev_speech_part = SpeechPart(...), which raises when it does not validate.
OpenNew(st, self, speech_seq, talker_id, speech_part_type, content) ==
    LET part == SpeechPart(self, talker_id, speech_seq, st.part_seq + 1,
                           speech_part_type, content)
    IN  IF ~ValidSpeechPart(part)
        THEN [st EXCEPT !.raised = TRUE,
                        !.segments = Append(@, st.prev_speech_part),
                        !.part_seq = @ + 1]
        ELSE [st EXCEPT !.segments = Append(@, st.prev_speech_part),
                        !.part_seq = @ + 1,
                        !.prev_speech_part = part]

\* Mutant of ContinuationBranch: the segment opened after an interjection
\* is typed SPEECH.
ContinuationBranch_TypedSpeech(st, p, self, speech_seq, main_talker) ==
    IF ~IsContinuation(p) THEN st
    ELSE IF st.prev_speech_part = NoPart THEN Raise(st)
    ELSE IF st.prev_speech_part.talker_id = main_talker.id THEN Merge(st, p)
    ELSE OpenNew(st, self, speech_seq, main_talker.id, "speech",
                 CleanText(GetText(p)))

\* Mutant of ContinuationBranch: a continuation before any segment is
\* ignored instead of raising.
ContinuationBranch_NoRaise(st, p, self, speech_seq, main_talker) ==
    IF ~IsContinuation(p) \/ st.prev_speech_part = NoPart THEN st
    ELSE IF st.prev_speech_part.talker_id = main_talker.id THEN Merge(st, p)
    ELSE OpenNew(st, self, speech_seq, main_talker.id, "continuation",
                 CleanText(GetText(p)))

\* `if is_continuation(p): ...` of the loop body.
ContinuationBranch(st, p, self, speech_seq, main_talker) ==
    IF ~IsContinuation(p) THEN st
    ELSE IF st.prev_speech_part = NoPart THEN Raise(st)
    ELSE IF st.prev_speech_part.talker_id = main_talker.id THEN Merge(st, p)
    ELSE OpenNew(st, self, speech_seq, main_talker.id, "continuation",
                 CleanText(GetText(p)))

\* Mutant of InterjectionBranch: the test of the open segment's owner is
\* inverted.
InterjectionBranch_Inverted(st, p, self, speech_seq, interjections) ==
    IF st.prev_speech_part = NoPart THEN Raise(st)
    ELSE IF IsInterjection(p) = "GENERAL"
    THEN OpenNew(st, self, speech_seq, <<>>, "interjection", <<>>)
    ELSE IF st.curr_interjection_ind >= Len(interjections)
    THEN st
    ELSE LET interjection_talker ==
                 interjections[st.curr_interjection_ind + 1]
         IN  IF st.prev_speech_part.talker_id # interjection_talker.id
             THEN Merge(st, p)
             ELSE LET new == OpenNew(st, self, speech_seq,
                                     interjection_talker.id, "interjection",
                                     CleanText(GetText(p)))
                  IN  IF new.raised THEN new
                      ELSE [new EXCEPT !.curr_interjection_ind = @ + 1]

\* Mutant of InterjectionBranch: the IndexError of an exhausted interjector
\* list is not caught.
InterjectionBranch_ExhaustedRaises(st, p, self, speech_seq, interjections) ==
    IF st.prev_speech_part = NoPart THEN Raise(st)
    ELSE IF IsInterjection(p) = "GENERAL"
    THEN OpenNew(st, self, speech_seq, <<>>, "interjection", <<>>)
    ELSE IF st.curr_interjection_ind >= Len(interjections)
    THEN Raise(st)
    ELSE LET interjection_talker ==
                 interjections[st.curr_interjection_ind + 1]
         IN  IF st.prev_speech_part.talker_id = interjection_talker.id
             THEN Merge(st, p)
             ELSE LET new == OpenNew(st, self, speech_seq,
                                     interjection_talker.id, "interjection",
                                     CleanText(GetText(p)))
                  IN  IF new.raised THEN new
                      ELSE [new EXCEPT !.curr_interjection_ind = @ + 1]

\* Mutant of InterjectionBranch: an attributable interjection always opens
\* a new segment, also when the open segment is the interjector's.
InterjectionBranch_AlwaysOpens(st, p, self, speech_seq, interjections) ==
    IF st.prev_speech_part = NoPart THEN Raise(st)
    ELSE IF IsInterjection(p) = "GENERAL"
    THEN OpenNew(st, self, speech_seq, <<>>, "interjection", <<>>)
    ELSE IF st.curr_interjection_ind >= Len(interjections)
    THEN st
    ELSE LET interjection_talker ==
                 interjections[st.curr_interjection_ind + 1]
             new == OpenNew(st, self, speech_seq,
                            interjection_talker.id, "interjection",
                            CleanText(GetText(p)))
         IN  IF new.raised THEN new
             ELSE [new EXCEPT !.curr_interjection_ind = @ + 1]

\* Mutant of InterjectionBranch: a general interjection consumes an
\* interjector.
InterjectionBranch_GeneralConsumes(st, p, self, speech_seq, interjections) ==
    IF st.prev_speech_part = NoPart THEN Raise(st)
    ELSE IF IsInterjection(p) = "GENERAL"
    THEN LET new == OpenNew(st, self, speech_seq, <<>>, "interjection", <<>>)
         IN  [new EXCEPT !.curr_interjection_ind = @ + 1]
    ELSE IF st.curr_interjection_ind >= Len(interjections)
    THEN st
    ELSE LET interjection_talker ==
                 interjections[st.curr_interjection_ind + 1]
         IN  IF st.prev_speech_part.talker_id = interjection_talker.id
             THEN Merge(st, p)
             ELSE LET new == OpenNew(st, self, speech_seq,
                                     interjection_talker.id, "interjection",
                                     CleanText(GetText(p)))
                  IN  IF new.raised THEN new
                      ELSE [new EXCEPT !.curr_interjection_ind = @ + 1]

\* `if (interjection_type := is_interjection(p)) is not None: ...`
InterjectionBranch(st, p, self, speech_seq, interjections) ==
    IF st.prev_speech_part = NoPart THEN Raise(st)
    ELSE IF IsInterjection(p) = "GENERAL"
    THEN OpenNew(st, self, speech_seq, <<>>, "interjection", <<>>)
    ELSE IF st.curr_interjection_ind >= Len(interjections)
    THEN st
    ELSE LET interjection_talker ==
                 interjections[st.curr_interjection_ind + 1]
         IN  IF st.prev_speech_part.talker_id = interjection_talker.id
             THEN Merge(st, p)
             ELSE LET new == OpenNew(st, self, speech_seq,
                                     interjection_talker.id, "interjection",
                                     CleanText(GetText(p)))
                  IN  IF new.raised THEN new
                      ELSE [new EXCEPT !.curr_interjection_ind = @ + 1]

\* Mutant of OrdinaryBranch: the segment opened after another speaker's is
\* typed CONTINUATION.
OrdinaryBranch_TypedContinuation(st, p, self, speech_seq, main_talker) ==
    IF st.prev_speech_part = NoPart
    THEN LET part == SpeechPart(self, main_talker.id, speech_seq, st.part_seq,
                                "speech", CleanText(GetText(p)))
         IN  IF ~ValidSpeechPart(part) THEN Raise(st)
             ELSE [st EXCEPT !.prev_speech_part = part]
    ELSE IF st.prev_speech_part.talker_id = main_talker.id THEN Merge(st, p)
    ELSE OpenNew(st, self, speech_seq, main_talker.id, "continuation",
                 CleanText(GetText(p)))

\* Mutant of OrdinaryBranch: a paragraph of the open segment's owner opens
\* a new segment instead of being merged.
OrdinaryBranch_NoMerge(st, p, self, speech_seq, main_talker) ==
    IF st.prev_speech_part = NoPart
    THEN LET part == SpeechPart(self, main_talker.id, speech_seq, st.part_seq,
                                "speech", CleanText(GetText(p)))
         IN  IF ~ValidSpeechPart(part) THEN Raise(st)
             ELSE [st EXCEPT !.prev_speech_part = part]
    ELSE OpenNew(st, self, speech_seq, main_talker.id, "speech",
                 CleanText(GetText(p)))

\* The `else:` of the interjection test: an ordinary paragraph.
OrdinaryBranch(st, p, self, speech_seq, main_talker) ==
    IF st.prev_speech_part = NoPart
    THEN LET part == SpeechPart(self, main_talker.id, speech_seq, st.part_seq,
                                "speech", CleanText(GetText(p)))
         IN  IF ~ValidSpeechPart(part) THEN Raise(st)
             ELSE [st EXCEPT !.prev_speech_part = part]
    ELSE IF st.prev_speech_part.talker_id = main_talker.id THEN Merge(st, p)
    ELSE OpenNew(st, self, speech_seq, main_talker.id, "speech",
                 CleanText(GetText(p)))

\* One iteration of `for p in speech_tag.find_all("p")`.
ParagraphStep(st, p, self, speech_seq, main_talker, interjections) ==
    LET c == ContinuationBranch(st, p, self, speech_seq, main_talker)
    IN  IF c.raised THEN c
        ELSE IF IsInterjection(p) # "NONE"
        THEN InterjectionBranch(c, p, self, speech_seq, interjections)
        ELSE OrdinaryBranch(c, p, self, speech_seq, main_talker)

RECURSIVE ParagraphLoop(_, _, _, _, _, _)
ParagraphLoop(st, ps, self, speech_seq, main_talker, interjections) ==
    IF ps = <<>> \/ st.raised THEN st
    ELSE ParagraphLoop(
             ParagraphStep(st, Head(ps), self, speech_seq, main_talker,
                           interjections),
             Tail(ps), self, speech_seq, main_talker, interjections)

\* Mutant of Returned: the segment still open at the end of the speech is
\* not pushed.
Returned_DropsOpen(st) == st.segments

\* `if prev_speech_part is not None: segments.append(prev_speech_part)`
\* and `return segments`.
Returned(st) ==
    IF st.prev_speech_part # NoPart
    THEN Append(st.segments, st.prev_speech_part)
    ELSE st.segments

\* Parser.parse_speech(speech_seq, speech_tag): whether it raised, else the
\* list of segments it returned.  speech_tag holds the talker tags of its
\* <interjection> blocks, the talker tag of its <talk.start> and its <p>
\* tags.
ParseSpeech(self, speech_seq, speech_tag) ==
    LET interjections == ExtractTalkers(speech_tag.interjections)
        main_talker == ExtractTalker(speech_tag.start)
    IN  IF interjections.raised \/ main_talker = Raised
        THEN [raised |-> TRUE, segments |-> <<>>]
        ELSE LET st == ParagraphLoop(LoopInit, speech_tag.ps, self, speech_seq,
                                     main_talker, interjections.talkers)
             IN  IF st.raised
                 THEN [raised |-> TRUE, segments |-> <<>>]
                 ELSE [raised |-> FALSE, segments |-> Returned(st)]


\* ----------------------------------------------------------------- speeches
\* sorted(parts, key=lambda part: part.part_seq): the sort is stable, so a
\* part goes behind the sorted parts whose part_seq is not larger.
RECURSIVE InsertByPartSeq(_, _)
InsertByPartSeq(sorted, part) ==
    IF sorted = <<>> THEN <<part>>
    ELSE IF Head(sorted).part_seq <= part.part_seq
    THEN <<Head(sorted)>> \o InsertByPartSeq(Tail(sorted), part)
    ELSE <<part>> \o sorted

RECURSIVE SortedByPartSeq(_)
SortedByPartSeq(parts) ==
    IF parts = <<>> THEN <<>>
    ELSE InsertByPartSeq(SortedByPartSeq(SubSeq(parts, 1, Len(parts) - 1)),
                         parts[Len(parts)])

\* Speech(parts=...)
Speech(parts) == [parts |-> parts]

\* Mutant of FromParts: the parts are kept in the order given.
FromParts_Unsorted(parts) ==
    IF Len(parts) = 0 THEN Raised ELSE Speech(parts)

\* Speech.from_parts(parts): Raised for the ValueError on an empty list.
FromParts(parts) ==
    IF Len(parts) = 0 THEN Raised ELSE Speech(SortedByPartSeq(parts))

\* Speech.id, Speech.title, Speech.talker_id
SpeechIdOf(speech) == SpeechId(speech.parts[1])
SpeechTitle(speech) == speech.parts[1].subdebate_1_title
SpeechTalkerId(speech) == speech.parts[1].talker_id

\* --------------------------------------------------------------- repository
\* The characters of the identifiers, in code point order.
CharOrder ==
    <<"-", "0", "1", "2", "3", "4", "5", "6", "7", "8", "9", "_",
      "a", "b", "c", "d", "e", "f", "g", "h", "i", "j", "k", "l", "m",
      "n", "o", "p", "q", "r", "s", "t", "u", "v", "w", "x", "y", "z">>
Rank(c) == CHOOSE i \in 1..Len(CharOrder) : CharOrder[i] = c

\* The order of two strings in a sort of the collection.
RECURSIVE LessStr(_, _)
LessStr(a, b) ==
    IF b = <<>> THEN FALSE
    ELSE IF a = <<>> THEN TRUE
    ELSE IF Head(a) = Head(b) THEN LessStr(Tail(a), Tail(b))
    ELSE Rank(Head(a)) < Rank(Head(b))

\* Mutant of RowBefore: the sort keys are swapped, part_seq first.
RowBefore_PartSeqFirst(p, q) ==
    \/ p.part_seq < q.part_seq
    \/ p.part_seq = q.part_seq /\ LessStr(SpeechId(p), SpeechId(q))

\* sort=[("speech_id", 1), ("part_seq", 1)]: p comes before q.
RowBefore(p, q) ==
    \/ LessStr(SpeechId(p), SpeechId(q))
    \/ SpeechId(p) = SpeechId(q) /\ p.part_seq < q.part_seq

\* The documents of a cursor in the order of its sort.
RECURSIVE SortRows(_)
SortRows(rows) ==
    IF rows = {} THEN <<>>
    ELSE LET first == CHOOSE p \in rows :
                          \A q \in rows \ {p} : ~RowBefore(q, p)
         IN  <<first>> \o SortRows(rows \ {first})

\* MongoPartRepository.upsert: one UpdateOne({"id": part_id}, ...,
\* upsert=True) per part, in order: the document of that id is replaced.
RECURSIVE Upsert(_, _)
Upsert(collection, parts) ==
    IF parts = <<>> THEN collection
    ELSE Upsert({q \in collection : PartId(q) # PartId(Head(parts))}
                    \cup {Head(parts)},
                Tail(parts))

\* MongoPartRepository.list_speech_parts_by_speeches(speech_ids)
ListSpeechPartsBySpeeches(collection, speech_ids) ==
    SortRows({q \in collection :
                  q.type = "speech" /\ SpeechId(q) \in speech_ids})

\* The locals of the one-pass grouping before its loop.
GroupInit(speech_ids, speech_parts) ==
    [ speech_ids |-> speech_ids,
      speech_parts |-> speech_parts,
      next |-> 1,
      speeches |-> <<>>,
      current_speech_id |-> None,
      current_speech_parts |-> <<>> ]

\* One iteration of `for part in speech_parts`.
GroupStep(g) ==
    LET part == g.speech_parts[g.next]
    IN  IF SpeechId(part) # g.current_speech_id
        THEN [g EXCEPT
                 !.speeches = IF g.current_speech_id # None
                              THEN Append(@, Speech(g.current_speech_parts))
                              ELSE @,
                 !.current_speech_id = SpeechId(part),
                 !.current_speech_parts = <<part>>,
                 !.next = @ + 1]
        ELSE [g EXCEPT !.current_speech_parts = Append(@, part),
                       !.next = @ + 1]

\* `if current_speech_id is not None: speeches.append(...)` after the loop.
GroupEnd(g) ==
    IF g.current_speech_id # None
    THEN [g EXCEPT !.speeches = Append(@, Speech(g.current_speech_parts))]
    ELSE g

\* ------------------------------------------------------------- input tags
BILLS == <<"B", "I", "L", "L", "S">>
FirstReading ==
    <<"F", "i", "r", "s", "t", " ", "R", "e", "a", "d", "i", "n", "g">>

\* ChamberType / CHAMBER_MAP
HOR_MAIN == <<"m", "a", "i", "n">>
HOR_FEDERATION == <<"f", "e", "d", "e", "r", "a", "t", "i", "o", "n">>
UNKNOWN == <<"u", "n", "k", "n", "o", "w", "n">>
ChamberMap(name) ==
    IF name = "chamber.xscript" THEN HOR_MAIN
    ELSE IF name = "fedchamb.xscript" THEN HOR_FEDERATION
    ELSE UNKNOWN

\* HouseType
SENATE == <<"s", "e", "n", "a", "t", "e">>
HOR == <<"h", "o", "r">>

\* <session.header><date>: the date's isoformat() once a Part holds it.
SessionDate == <<"2", "0", "2", "5", "-", "1", "0", "-", "0", "9">>

TalkerA == [ name |-> <<"A", "n", "n">>, id |-> <<"A">>,
             electorate |-> <<"E">>, party |-> <<"P">> ]
TalkerB == [ name |-> <<"B", "o", "b">>, id |-> <<" ", "B">>,
             electorate |-> <<"E">>, party |-> <<"Q">> ]
TalkerC == [ name |-> <<"C", "y">>, id |-> <<"C">>,
             electorate |-> None, party |-> <<"P">> ]
\* A talker without <name>: extract_talker raises.
TalkerNoName == [ name |-> None, id |-> <<"N">>,
                  electorate |-> <<"E">>, party |-> <<"P">> ]
\* A talker without <name.id>: Talker.id is None.
TalkerNoId == [ name |-> <<"D">>, id |-> None,
                electorate |-> None, party |-> None ]

\* A talker whose <party> holds only white space.
TalkerBlank == [ name |-> <<"F">>, id |-> <<"F">>,
                 electorate |-> <<"E">>, party |-> <<" ">> ]
\* The <talker> tags of the soup that the talker extraction scans.
TalkerTags ==
    {TalkerA, TalkerB, TalkerC, TalkerNoName, TalkerNoId, TalkerBlank}

\* Text nodes of paragraphs.
PlainStrings == << <<"o", "k", " ">> >>
NamedStrings ==
    << <<"X", " ">>,
       <<" ", "(", "1", "0", ":", "3", "0", ")", ":", " ", "h", "i">> >>

Para(cont, member, office, general, strings) ==
    [ cont |-> cont, member |-> member, office |-> office,
      general |-> general, strings |-> strings ]

\* The raw category (<debateinfo><title> text) of a <debate>, None without.
DebateTags ==
    { [category |-> None],
      [category |-> <<" ">> \o BILLS \o <<"\n">>],
      [category |-> <<"B", "i", "l", "l", "s">>] }

\* A <subdebate.1>: raw title, info and the href of its <a type="Bill">.
Subdebate1Tags ==
    { [title |-> None, info |-> None, hrefs |-> << <<"r", "1">> >>],
      [title |-> <<"T">>, info |-> None, hrefs |-> <<>>],
      [title |-> <<"T", " ">>, info |-> <<"i">>, hrefs |-> << <<"r", "1">> >>],
      [title |-> <<"U">>, info |-> None,
       hrefs |-> << <<" ", "r", "2">>, <<"r", "1">> >>] }

\* A <subdebate.2>: raw title and info.
Subdebate2Tags ==
    { [title |-> None, info |-> <<"i">>],
      [title |-> <<" ">> \o FirstReading \o <<" ">>, info |-> None],
      [title |-> <<"F", "i", "r", "s", "t">>, info |-> <<"j">>] }

\* <p> tags of the per-paragraph specification: with or without the
\* continuation anchor, with no interjection marker, the member anchor, the
\* office span (here beside a general span) or the general span.
ParagraphTags ==
    { Para(cont, m[1], m[2], m[3], strings) :
          cont \in BOOLEAN,
          m \in { <<FALSE, FALSE, FALSE>>, <<TRUE, FALSE, FALSE>>,
                  <<FALSE, TRUE, TRUE>>, <<FALSE, FALSE, TRUE>> },
          strings \in {PlainStrings, NamedStrings} }

\* The <talk.start> talker tags and the lists of <interjection> talker
\* tags of the per-paragraph specification.
StartTags == {TalkerA, TalkerNoName, TalkerNoId, NoTag}
InterjectionTags ==
    { <<>>, <<TalkerB>>, <<TalkerB, TalkerC>>,
      <<TalkerB, TalkerB, TalkerC>>, <<TalkerA, TalkerB>>, <<TalkerNoId>>,
      <<TalkerB, NoTag>> }
\* The speech_seq arguments of the per-paragraph specification.
SpeechSeqs == {12}

\* <speech> tags of the document-level specification.
SpeechTags ==
    { [start |-> TalkerA, interjections |-> <<>>, ps |-> <<>>],
      [start |-> TalkerA, interjections |-> <<TalkerB>>,
       ps |-> <<Para(FALSE, FALSE, FALSE, FALSE, PlainStrings),
                Para(FALSE, TRUE, FALSE, FALSE, NamedStrings)>>],
      [start |-> TalkerA, interjections |-> <<>>,
       ps |-> <<Para(TRUE, FALSE, FALSE, FALSE, PlainStrings)>>],
      [start |-> TalkerA, interjections |-> <<TalkerB>>,
       ps |-> <<Para(FALSE, FALSE, TRUE, FALSE, PlainStrings)>>],
      [start |-> TalkerNoName, interjections |-> <<>>,
       ps |-> <<Para(FALSE, FALSE, FALSE, FALSE, PlainStrings)>>] }

\* -------------------------------------------------------------- extraction
\* extract_debate_category(debate_tag)
ExtractDebateCategory(debate_tag) == TextStripOrNone(debate_tag.category)

\* extract_debate_title(tag, type="subdebate")
ExtractDebateTitle(tag) == TextStripOrNone(tag.title)

\* extract_debate_info(tag, type="subdebate")
ExtractDebateInfo(tag) == tag.info

\* Mutant of ExtractBillIds: only the first anchor is kept.
ExtractBillIds_FirstOnly(tag) ==
    IF tag.hrefs # <<>> THEN <<Strip(tag.hrefs[1])>> ELSE NoneList

\* extract_bill_ids(debate_tag)
ExtractBillIds(tag) ==
    IF tag.hrefs # <<>>
    THEN [i \in 1..Len(tag.hrefs) |-> Strip(tag.hrefs[i])]
    ELSE NoneList

\* ------------------------------------------------------------------- state
VARIABLES
    parser,     \* the Parser object: its fields
    pc,         \* the loop of parse_speeches the traversal stands in
    doc,        \* history: the tags visited so far, in traversal order
    at,         \* history: the indices in doc of the enclosing tags
    origin,     \* history: for each element of parser.parts, the tags it
                \* was emitted under
    call,       \* parse_speech: its argument speech_seq and its locals
                \* main_talker and interjections, NoCall outside a call
    loop,       \* parse_speech: the locals its loop updates
    paras,      \* history: the <p> tags the loop has processed
    chambers,   \* history: the chamber tags entered so far, each with the
                \* number of tags visited before it
    scan,       \* the <talker> tags of the soup scanned so far (history) and
                \* the locals of parse_talkers and Talker.extract_talkers
    first_run,  \* history: the document and the outcome of an earlier run
                \* of parse() over it, NoRun before
    made,       \* Speech.from_parts: its argument and what it gave
    store,      \* the parts collection of the repository: its documents
    grp,        \* the one-pass grouping: the rows read back and its locals
    batch,      \* parse_many / parse_one: the entry point, the files
                \* handled and the local speech_ids
    published,  \* the events handed to publisher.publish, in order
    bus         \* the LocalPublisher's subscribers and every
                \* LocalSubscriber's topics, queue and worker

vars == <<parser, pc, doc, at, origin, call, loop, paras, chambers, scan,
          first_run, made, store, grp, batch, published, bus>>
docvars == <<doc, at, origin, chambers>>
callvars == <<call, loop, paras>>
storevars == <<store, grp, batch, published, bus>>
svcvars == <<scan, first_run, made, storevars>>

NoCall == [none |-> TRUE]

\* No result yet.
NoResult == [none |-> TRUE]
\* The talker extraction before its loops: `talkers = []` in both.
ScanInit ==
    [ tags |-> <<>>,
      parse_talkers |-> [raised |-> FALSE, talkers |-> <<>>],
      extract_talkers |-> <<>>,
      result |-> NoResult ]

\* No earlier run of parse().
NoRun == [none |-> TRUE]

\* ------------------------------------------------------------------ events
\* The topics of the subscribers (ViewUpdateSubscriber._supported_topics)
\* and the LocalSubscriber objects.
Topics == {"parser.completed", "nlp.batch_completed"}
Subscribers == {"view", "summary"}

\* No event in the worker's hands.
NoEvent == [none |-> TRUE]

\* LocalSubscriber.__init__ and AbstractSubscriber.__init__: an empty
\* queue (with its count of unfinished tasks), no worker, no topics.
\* `event` is the local of get_message_loop, `handled` the history of the
\* calls of handle that ended, each with the way it ended.
SubscriberInit ==
    [ topics |-> {}, queue |-> <<>>, unfinished |-> 0, worker |-> "none",
      event |-> NoEvent, handled |-> <<>> ]

\* LocalPublisher.__init__ (subscribers is a defaultdict(list)) and the
\* subscribers constructed with it; _latest_event, which nothing reads, is
\* left out.  `audience` is history: for each call of publish, the
\* subscribers whose _topics held the event's topic at that time.
BusInit ==
    [ subscribers |-> [topic \in Topics |-> <<>>],
      subs |-> [s \in Subscribers |-> SubscriberInit],
      audience |-> <<>> ]

\* LocalPublisher.register(subscriber, topic)
Register(b, subscriber, topic) ==
    [b EXCEPT !.subscribers[topic] = Append(@, subscriber)]

\* The `for topic in topics` loop of LocalSubscriber.subscribe.
RECURSIVE SubscribeTopics(_, _, _)
SubscribeTopics(b, s, topics) ==
    IF topics = <<>> THEN b
    ELSE LET topic == Head(topics)
             registered ==
                 IF topic \notin b.subs[s].topics
                 THEN [Register(b, s, topic) EXCEPT
                          !.subs[s].topics = @ \cup {topic}]
                 ELSE b
         IN  SubscribeTopics(registered, s, Tail(topics))

\* LocalSubscriber.subscribe(topics): the registrations, then the worker
\* task is created if there is none; the task waits in queue.get().
Subscribe(b, s, topics) ==
    LET registered == SubscribeTopics(b, s, topics)
    IN  IF registered.subs[s].worker = "none"
        THEN [registered EXCEPT !.subs[s].worker = "waiting"]
        ELSE registered

\* LocalSubscriber.notify(event): queue.put_nowait(event) on an unbounded
\* queue.
Notify(b, s, event) ==
    [b EXCEPT !.subs[s].queue = Append(@, event),
              !.subs[s].unfinished = @ + 1]

\* The `for subscriber in self.subscribers[topic]` loop of publish.
RECURSIVE NotifyAll(_, _, _)
NotifyAll(b, subscribers, event) ==
    IF subscribers = <<>> THEN b
    ELSE NotifyAll(Notify(b, Head(subscribers), event), Tail(subscribers),
                   event)

\* LocalPublisher.publish(event): an event without a topic raises
\* ValueError before anyone is notified.
PublishEvent(b, event) ==
    IF "topic" \notin DOMAIN event THEN b
    ELSE NotifyAll(b, b.subscribers[event.topic], event)

\* get_message_loop: `event = await self.queue.get()` returns the oldest
\* event of the queue.
GetMessage(sub) ==
    [sub EXCEPT !.event = Head(sub.queue),
                !.queue = Tail(@),
                !.worker = "handling"]

\* Mutant of HandleEvent: an exception of the handler ends the loop.
HandleEvent_RaiseEndsLoop(sub, outcome) ==
    [sub EXCEPT !.handled = Append(@, [event |-> sub.event,
                                       outcome |-> outcome]),
                !.unfinished = @ - 1,
                !.event = NoEvent,
                !.worker = IF outcome = "returned" THEN "waiting"
                           ELSE "cancelled"]

\* get_message_loop: `await self.handle(event)` ended by returning, by
\* raising (caught by `except BaseException`, logged) or by the task's
\* cancellation (re-raised: the loop ends); `finally` calls task_done().
HandleEvent(sub, outcome) ==
    [sub EXCEPT !.handled = Append(@, [event |-> sub.event,
                                       outcome |-> outcome]),
                !.unfinished = @ - 1,
                !.event = NoEvent,
                !.worker = IF outcome = "cancelled" THEN "cancelled"
                           ELSE "waiting"]

\* The worker task is cancelled at one of its two awaits: in queue.get()
\* the loop ends with nothing taken, in handle() as HandleEvent says.
CancelWorker(sub) ==
    IF sub.worker = "handling" THEN HandleEvent(sub, "cancelled")
    ELSE [sub EXCEPT !.worker = "cancelled"]

\* The repository and the services before anything is ingested.
NoBatch == [none |-> TRUE]
NoGrouping == [none |-> TRUE]
StoreInit ==
    /\ store = {}
    /\ grp = NoGrouping
    /\ batch = NoBatch
    /\ published = <<>>
    /\ bus = BusInit

\* The houses a Parser is constructed for.
Houses == {HOR}

\* Parser.__init__
ParserInit(house) ==
    [ house |-> house,
      date |-> SessionDate,
      speech_ids |-> {},
      bill_ids |-> NoneList,
      chamber |-> UNKNOWN,
      debate_category |-> None,
      debate_seq |-> 0,
      subdebate_1_title |-> None,
      subdebate_1_info |-> None,
      subdebate_1_seq |-> NoneInt,
      subdebate_2_title |-> None,
      subdebate_2_info |-> None,
      subdebate_2_seq |-> NoneInt,
      speech_seq |-> 0,
      parts |-> <<>> ]

Init ==
    /\ \E house \in Houses : parser = ParserInit(house)
    /\ pc = "start"
    /\ doc = <<>>
    /\ at = [debate |-> 0, subdebate_1 |-> 0, subdebate_2 |-> 0]
    /\ origin = <<>>
    /\ call = NoCall
    /\ loop = LoopInit
    /\ paras = <<>>
    /\ chambers = <<>>
    /\ scan = ScanInit
    /\ first_run = NoRun
    /\ made = NoResult
    /\ StoreInit

\* The documents explored: the tags a document is made of and the number
\* of tags it holds at most.
AllTags ==
    [ debates |-> DebateTags, subdebates_1 |-> Subdebate1Tags,
      subdebates_2 |-> Subdebate2Tags, speeches |-> SpeechTags,
      max |-> MaxNodes ]

\* Deeper documents made of the tags that are not skipped and do not raise.
DeepTags ==
    [ debates |-> {t \in DebateTags : ExtractDebateCategory(t) = BILLS},
      subdebates_1 |-> {t \in Subdebate1Tags :
                            t.title # None /\ t.hrefs # <<>>},
      subdebates_2 |-> {t \in Subdebate2Tags : t.title # None},
      speeches |-> {t \in SpeechTags : Len(t.ps) = 2},
      max |-> MaxDeepNodes ]

\* A tag is only visited while the document holds fewer than max tags.
Visit(kind, tag, max) ==
    /\ Len(doc) < max
    /\ doc' = Append(doc, [kind |-> kind, tag |-> tag])

\* The history record of a part emitted now by the speech doc[speech]
\* (0 for the first-reading marker).
Origin(subdebate_2, speech) ==
    [ debate |-> at.debate, subdebate_1 |-> at.subdebate_1,
      subdebate_2 |-> subdebate_2, speech |-> speech ]

\* ---- the code run when a loop of parse_speeches has no further tag ----
\* Mutant of EndSpeeches1: speech_seq is not set back to 0.
EndSpeeches1_KeepsSpeechSeq(self) == [self EXCEPT !.subdebate_2_seq = 0]

\* parse_speeches, lines 230-231: after the speeches of the <subdebate.1>.
EndSpeeches1(self) == [self EXCEPT !.subdebate_2_seq = 0, !.speech_seq = 0]

\* parse_speeches, lines 277-280: after the speeches of a <subdebate.2>.
EndSpeeches2(self) ==
    [self EXCEPT !.subdebate_2_title = None,
                 !.subdebate_2_info = None,
                 !.speech_seq = 0,
                 !.subdebate_2_seq = @ + 1]

\* parse_speeches, lines 281-284: after the <subdebate.2> of a
\* <subdebate.1>.
EndSubdebates2(self) ==
    [self EXCEPT !.bill_ids = NoneList,
                 !.subdebate_1_title = None,
                 !.subdebate_1_info = None,
                 !.subdebate_1_seq = @ + 1]

\* parse_speeches, lines 285-286: after the <subdebate.1> of a <debate>.
EndSubdebates1(self) ==
    [self EXCEPT !.debate_category = None, !.debate_seq = @ + 1]

\* The parser once the traversal, standing in loop `from`, is back in the
\* loop over the <subdebate.2> of the current <subdebate.1>.
ToSubdebates2(self, from) ==
    IF from = "speeches_1" THEN EndSpeeches1(self)
    ELSE IF from = "speeches_2" THEN EndSpeeches2(self)
    ELSE self

\* ... back in the loop over the <subdebate.1> of the current <debate>.
ToSubdebates1(self, from) ==
    IF from = "subdebates_1" THEN self
    ELSE EndSubdebates2(ToSubdebates2(self, from))

\* ... back in the loop over the <debate> of the current chamber.
ToDebates(self, from) ==
    IF from = "debates" THEN self
    ELSE EndSubdebates1(ToSubdebates1(self, from))

InChamber ==
    pc \in {"debates", "subdebates_1", "speeches_1", "subdebates_2",
            "speeches_2"}

\* Mutant of Chamber: the debate sequence restarts in every chamber.
Chamber_ResetsDebateSeq(name) ==
    /\ parser' = [(IF InChamber THEN ToDebates(parser, pc) ELSE parser)
                     EXCEPT !.chamber = ChamberMap(name), !.debate_seq = 0]
    /\ pc' = "debates"
    /\ chambers' = Append(chambers, [name |-> name, before |-> Len(doc)])

\* parse(), lines 170-181: the traversal enters the next chamber tag of
\* the document (chamber.xscript comes before fedchamb.xscript), leaving
\* the loops it stands in.
Chamber(name) ==
    /\ parser' = [(IF InChamber THEN ToDebates(parser, pc) ELSE parser)
                     EXCEPT !.chamber = ChamberMap(name)]
    /\ pc' = "debates"
    /\ chambers' = Append(chambers, [name |-> name, before |-> Len(doc)])

VisitChamber ==
    /\ UNCHANGED <<callvars, svcvars>>
    /\ \/ /\ pc = "start"
          /\ \E name \in {"chamber.xscript", "fedchamb.xscript"} :
                 Chamber(name)
       \/ /\ InChamber
          /\ parser.chamber = HOR_MAIN
          /\ Chamber("fedchamb.xscript")
    /\ UNCHANGED <<doc, at, origin>>

\* parse(), line 182: the document holds no further tag.
Finish ==
    /\ UNCHANGED <<callvars, svcvars>>
    /\ pc = "start" \/ InChamber
    /\ parser' = IF InChamber THEN ToDebates(parser, pc) ELSE parser
    /\ pc' = "done"
    /\ UNCHANGED <<doc, at, origin, chambers>>

\* Mutant of Debate: a debate without a category ends the traversal
\* (`return` for `continue`).
Debate_SkipReturns(self, debate_tag) ==
    LET category == ExtractDebateCategory(debate_tag)
    IN  IF category = None
        THEN /\ parser' = [self EXCEPT !.debate_category = None]
             /\ pc' = "done"
        ELSE /\ parser' = [self EXCEPT !.debate_category = category,
                                       !.subdebate_1_seq = 0]
             /\ pc' = "subdebates_1"

\* parse_speeches, lines 189-197: one <debate> of the chamber.  Without a
\* category it is skipped (`continue`).
Debate(self, debate_tag) ==
    LET category == ExtractDebateCategory(debate_tag)
    IN  IF category = None
        THEN /\ parser' = [self EXCEPT !.debate_category = None]
             /\ pc' = "debates"
        ELSE /\ parser' = [self EXCEPT !.debate_category = category,
                                       !.subdebate_1_seq = 0]
             /\ pc' = "subdebates_1"

VisitDebate(tags) ==
    /\ UNCHANGED <<callvars, svcvars>>
    /\ InChamber
    /\ \E debate_tag \in tags.debates :
           /\ Visit("debate", debate_tag, tags.max)
           /\ Debate(ToDebates(parser, pc), debate_tag)
    /\ at' = [debate |-> Len(doc) + 1, subdebate_1 |-> 0, subdebate_2 |-> 0]
    /\ UNCHANGED <<origin, chambers>>

\* Mutant of Subdebate1BillIds: the debate category is not looked at.
Subdebate1BillIds_AnyCategory(self, subdebate_1_tag) ==
    ExtractBillIds(subdebate_1_tag)

\* parse_speeches, lines 199-203.
Subdebate1BillIds(self, subdebate_1_tag) ==
    IF self.debate_category = BILLS
    THEN ExtractBillIds(subdebate_1_tag)
    ELSE NoneList

\* parse_speeches, lines 198-214: one <subdebate.1> of the debate.  Without
\* a title it is skipped (`continue`).
Subdebate1(self, subdebate_1_tag) ==
    LET title == ExtractDebateTitle(subdebate_1_tag)
    IN  /\ parser' =
               [self EXCEPT
                   !.bill_ids = Subdebate1BillIds(self, subdebate_1_tag),
                   !.subdebate_1_title = title,
                   !.subdebate_1_info = ExtractDebateInfo(subdebate_1_tag)]
        /\ pc' = IF title = None THEN "subdebates_1" ELSE "speeches_1"

VisitSubdebate1(tags) ==
    /\ UNCHANGED <<callvars, svcvars>>
    /\ InChamber /\ pc # "debates"
    /\ \E subdebate_1_tag \in tags.subdebates_1 :
           /\ Visit("subdebate.1", subdebate_1_tag, tags.max)
           /\ Subdebate1(ToSubdebates1(parser, pc), subdebate_1_tag)
    /\ at' = [at EXCEPT !.subdebate_1 = Len(doc) + 1, !.subdebate_2 = 0]
    /\ UNCHANGED <<origin, chambers>>

\* self.parts.extend(speech_parts); self.speech_ids.update(...);
\* self.speech_seq += 1
AddSpeechParts(self, speech_parts) ==
    [self EXCEPT
        !.parts = @ \o speech_parts,
        !.speech_ids = @ \cup {SpeechId(speech_parts[i]) :
                                   i \in 1..Len(speech_parts)},
        !.speech_seq = @ + 1]

\* parse_speeches, lines 215-229: one <speech> that is a child of the
\* <subdebate.1>.  The warning for an empty result formats the undefined
\* name speech_id (line 223), which raises NameError.
Speech1(speech_tag) ==
    LET result == ParseSpeech(parser, parser.speech_seq, speech_tag)
        speech_parts == result.segments
    IN  IF result.raised \/ speech_parts = <<>>
        THEN /\ pc' = "raised"
             /\ UNCHANGED <<parser, origin>>
        ELSE /\ parser' = AddSpeechParts(parser, speech_parts)
             /\ origin' = origin \o [i \in 1..Len(speech_parts) |->
                                         Origin(0, Len(doc) + 1)]
             /\ pc' = "speeches_1"

VisitSpeech1(tags) ==
    /\ UNCHANGED <<callvars, svcvars>>
    /\ pc = "speeches_1"
    /\ \E speech_tag \in tags.speeches :
           /\ Visit("speech", speech_tag, tags.max)
           /\ Speech1(speech_tag)
    /\ UNCHANGED <<at, chambers>>

\* The Part(...) of lines 246-260: the first-reading marker.
FirstReadingPart(self) ==
    [ date |-> self.date,
      house |-> self.house,
      bill_ids |-> self.bill_ids,
      chamber |-> self.chamber,
      type |-> "first_reading",
      debate_category |-> self.debate_category,
      debate_seq |-> self.debate_seq,
      subdebate_1_title |-> self.subdebate_1_title,
      subdebate_1_info |-> self.subdebate_1_info,
      subdebate_1_seq |-> self.subdebate_1_seq,
      subdebate_2_title |-> self.subdebate_2_title,
      subdebate_2_info |-> self.subdebate_2_info,
      subdebate_2_seq |-> self.subdebate_2_seq ]

\* Mutant of EmitsFirstReading: every titled <subdebate.2> gets a marker.
EmitsFirstReading_AnyTitle(title) == title # None

\* parse_speeches, line 244: whether the <subdebate.2> gets a marker.
EmitsFirstReading(title) == title = FirstReading

\* parse_speeches, lines 232-261: one <subdebate.2> of the <subdebate.1>.
\* Without a title it is skipped (`continue`).
Subdebate2(self, subdebate_2_tag) ==
    LET title == ExtractDebateTitle(subdebate_2_tag)
        titled == [self EXCEPT
                      !.subdebate_2_title = title,
                      !.subdebate_2_info = ExtractDebateInfo(subdebate_2_tag)]
    IN  IF title = None
        THEN /\ parser' = titled
             /\ pc' = "subdebates_2"
             /\ UNCHANGED origin
        ELSE /\ IF EmitsFirstReading(title)
                THEN /\ parser' = [titled EXCEPT
                            !.parts = Append(@, FirstReadingPart(titled))]
                     /\ origin' = Append(origin, Origin(Len(doc) + 1, 0))
                ELSE /\ parser' = titled
                     /\ UNCHANGED origin
             /\ pc' = "speeches_2"

VisitSubdebate2(tags) ==
    /\ UNCHANGED <<callvars, svcvars>>
    /\ pc \in {"speeches_1", "subdebates_2", "speeches_2"}
    /\ \E subdebate_2_tag \in tags.subdebates_2 :
           /\ Visit("subdebate.2", subdebate_2_tag, tags.max)
           /\ Subdebate2(ToSubdebates2(parser, pc), subdebate_2_tag)
    /\ at' = [at EXCEPT !.subdebate_2 = Len(doc) + 1]
    /\ UNCHANGED chambers

\* parse_speeches, lines 262-276: one <speech> of the <subdebate.2>.
Speech2(speech_tag) ==
    LET result == ParseSpeech(parser, parser.speech_seq, speech_tag)
        speech_parts == result.segments
    IN  IF result.raised
        THEN /\ pc' = "raised"
             /\ UNCHANGED <<parser, origin>>
        ELSE /\ parser' = AddSpeechParts(parser, speech_parts)
             /\ origin' = origin \o [i \in 1..Len(speech_parts) |->
                                         Origin(at.subdebate_2, Len(doc) + 1)]
             /\ pc' = "speeches_2"

VisitSpeech2(tags) ==
    /\ UNCHANGED <<callvars, svcvars>>
    /\ pc = "speeches_2"
    /\ \E speech_tag \in tags.speeches :
           /\ Visit("speech", speech_tag, tags.max)
           /\ Speech2(speech_tag)
    /\ UNCHANGED <<at, chambers>>

\* ------------------------------------------- parse_speech, step by step
\* The parser as the test fixture sets it up before it calls parse_speech
\* (src/test/hansard/conftest.py, lines 24-30).
FixtureParser ==
    [ParserInit(HOR) EXCEPT !.debate_category = BILLS,
                            !.subdebate_1_title = <<"T">>]

InitSpeech ==
    /\ parser = FixtureParser
    /\ pc = "call"
    /\ doc = <<>>
    /\ at = [debate |-> 0, subdebate_1 |-> 0, subdebate_2 |-> 0]
    /\ origin = <<>>
    /\ call = NoCall
    /\ loop = LoopInit
    /\ paras = <<>>
    /\ chambers = <<>>
    /\ scan = ScanInit
    /\ first_run = NoRun
    /\ made = NoResult
    /\ StoreInit

\* parse_speech, lines 292-302: the locals before the loop.
CallParseSpeech ==
    /\ pc = "call"
    /\ \E speech_seq \in SpeechSeqs, start \in StartTags,
          tags \in InterjectionTags :
          LET interjections == ExtractTalkers(tags)
              main_talker == ExtractTalker(start)
          IN  IF interjections.raised \/ main_talker = Raised
              THEN /\ pc' = "call_raised"
                   /\ UNCHANGED call
              ELSE /\ pc' = "paragraphs"
                   /\ call' = [ speech_seq |-> speech_seq,
                                main_talker |-> main_talker,
                                interjections |-> interjections.talkers ]
    /\ UNCHANGED <<parser, docvars, svcvars, loop, paras>>

\* parse_speech, lines 303-460: one <p> of the speech.
Paragraph ==
    /\ pc = "paragraphs"
    /\ Len(paras) < MaxParas
    /\ \E p \in ParagraphTags :
          /\ loop' = ParagraphStep(loop, p, parser, call.speech_seq,
                                   call.main_talker, call.interjections)
          /\ paras' = Append(paras, p)
    /\ pc' = IF loop'.raised THEN "call_raised" ELSE "paragraphs"
    /\ UNCHANGED <<parser, docvars, svcvars, call>>

\* parse_speech, lines 461-463: the speech has no further <p>.
Return ==
    /\ pc = "paragraphs"
    /\ loop' = [loop EXCEPT !.segments = Returned(loop)]
    /\ pc' = "returned"
    /\ UNCHANGED <<parser, docvars, svcvars, call, paras>>

NextSpeech ==
    \/ CallParseSpeech
    \/ Paragraph
    \/ Return

SpecSpeech == InitSpeech /\ [][NextSpeech]_vars

Next ==
    \/ VisitChamber
    \/ VisitDebate(AllTags)
    \/ VisitSubdebate1(AllTags)
    \/ VisitSpeech1(AllTags)
    \/ VisitSubdebate2(AllTags)
    \/ VisitSpeech2(AllTags)
    \/ Finish

Spec == Init /\ [][Next]_vars

NextDeep ==
    \/ VisitChamber
    \/ VisitDebate(DeepTags)
    \/ VisitSubdebate1(DeepTags)
    \/ VisitSpeech1(DeepTags)
    \/ VisitSubdebate2(DeepTags)
    \/ VisitSpeech2(DeepTags)
    \/ Finish

SpecDeep == Init /\ [][NextDeep]_vars

\* ------------------------------------------------ parse(), a second time
\* The documents that are parsed twice.
RerunTags == [AllTags EXCEPT !.max = MaxRerunNodes]

\* Mutant of NewParser: the second run calls parse() on the Parser object
\* of the first run.
NewParser_SameObject(house) == parser

\* `parser = Parser(house, filepath)` (services.py, 130 and 154): every run
\* over a document starts from a new Parser.
NewParser(house) == ParserInit(house)

\* A run of parse() has ended (returned or raised); the same unchanged
\* document is parsed again.
Rerun ==
    /\ pc \in {"done", "raised"}
    /\ first_run = NoRun
    /\ first_run' = [ doc |-> doc, chambers |-> chambers,
                      parts |-> parser.parts,
                      speech_ids |-> parser.speech_ids, pc |-> pc ]
    /\ parser' = NewParser(parser.house)
    /\ pc' = "start"
    /\ doc' = <<>>
    /\ at' = [debate |-> 0, subdebate_1 |-> 0, subdebate_2 |-> 0]
    /\ origin' = <<>>
    /\ chambers' = <<>>
    /\ UNCHANGED <<callvars, scan, made, storevars>>

IsPrefix(s, t) == Len(s) <= Len(t) /\ s = SubSeq(t, 1, Len(s))

\* The document is unchanged: what the second run has read so far is what
\* the first run read, the chamber tags in the same places.
Replays ==
    \/ first_run = NoRun
    \/ /\ IsPrefix(doc, first_run.doc)
       /\ IsPrefix(chambers, first_run.chambers)
       /\ \A i \in 1..Len(first_run.chambers) :
              first_run.chambers[i].before < Len(doc) => i <= Len(chambers)

\* The second run has read the whole document.
ReplayedAll ==
    \/ first_run = NoRun
    \/ doc = first_run.doc /\ chambers = first_run.chambers

NextRerun ==
    \/ VisitChamber /\ Replays'
    \/ VisitDebate(RerunTags) /\ Replays'
    \/ VisitSubdebate1(RerunTags) /\ Replays'
    \/ VisitSpeech1(RerunTags) /\ Replays'
    \/ VisitSubdebate2(RerunTags) /\ Replays'
    \/ VisitSpeech2(RerunTags) /\ Replays'
    \/ Finish /\ ReplayedAll
    \/ Rerun

SpecRerun == Init /\ [][NextRerun]_vars

\* -------------------------------------------------------- Speech.from_parts
\* The segments handed to Speech.from_parts and kept in the parts
\* collection: of three speeches, by two talkers under two subdebates, with
\* part_seq 0 to 2.
SegmentInputs ==
    { SpeechPart([FixtureParser EXCEPT !.subdebate_1_title = v[2]], v[1],
                 speech_seq, part_seq, "speech", <<"x">>) :
          v \in { << <<"A">>, <<"T">> >>, << <<"B">>, <<"U">> >> },
          speech_seq \in {1, 2, 10}, part_seq \in 0..2 }

InitFromParts ==
    /\ parser = FixtureParser
    /\ pc = "from_parts"
    /\ doc = <<>>
    /\ at = [debate |-> 0, subdebate_1 |-> 0, subdebate_2 |-> 0]
    /\ origin = <<>>
    /\ call = NoCall
    /\ loop = LoopInit
    /\ paras = <<>>
    /\ chambers = <<>>
    /\ scan = ScanInit
    /\ first_run = NoRun
    /\ made = [parts |-> <<>>, speech |-> NoResult]
    /\ StoreInit

\* The caller adds a segment to the list it will hand to from_parts.
AddPart ==
    /\ pc = "from_parts"
    /\ Len(made.parts) < MaxParts
    /\ \E part \in SegmentInputs :
           made' = [made EXCEPT !.parts = Append(@, part)]
    /\ UNCHANGED <<parser, pc, docvars, callvars, scan, first_run, storevars>>

\* Speech.from_parts(parts)
CallFromParts ==
    /\ pc = "from_parts"
    /\ made' = [made EXCEPT !.speech = FromParts(made.parts)]
    /\ pc' = IF made'.speech = Raised THEN "from_parts_raised"
             ELSE "from_parts_returned"
    /\ UNCHANGED <<parser, docvars, callvars, scan, first_run, storevars>>

NextFromParts ==
    \/ AddPart
    \/ CallFromParts

SpecFromParts == InitFromParts /\ [][NextFromParts]_vars

\* ------------------------------------------- the grouping of the read-back
\* The parts upserted: the segments and a first-reading marker.
StoredInputs ==
    SegmentInputs \cup
        {FirstReadingPart([FixtureParser EXCEPT
                              !.subdebate_2_title = FirstReading])}

\* The speech ids a batch of summarisation asks for.
SpeechIdInputs ==
    LET ids == {SpeechId(q) : q \in SegmentInputs}
    IN  {ids} \cup {ids \ {SpeechId(q)} :
                        q \in {x \in SegmentInputs : x.speech_seq = 1}}

InitGrouping ==
    /\ parser = FixtureParser
    /\ pc = "store"
    /\ doc = <<>>
    /\ at = [debate |-> 0, subdebate_1 |-> 0, subdebate_2 |-> 0]
    /\ origin = <<>>
    /\ call = NoCall
    /\ loop = LoopInit
    /\ paras = <<>>
    /\ chambers = <<>>
    /\ scan = ScanInit
    /\ first_run = NoRun
    /\ made = NoResult
    /\ StoreInit

\* speech_part_repo.upsert(parts): the parts of an ingestion reach the
\* collection.
UpsertParts ==
    /\ pc = "store"
    /\ Cardinality(store) < MaxStored
    /\ \E part \in StoredInputs : store' = Upsert(store, <<part>>)
    /\ UNCHANGED <<parser, pc, docvars, callvars, scan, first_run, made,
                   grp, batch, published, bus>>

\* run_next_batch_speech_summarisation(speech_ids), lines 215-228: the
\* read-back and the locals of the grouping.
ListSpeechParts ==
    /\ pc = "store"
    /\ \E speech_ids \in SpeechIdInputs :
           grp' = GroupInit(speech_ids,
                            ListSpeechPartsBySpeeches(store, speech_ids))
    /\ pc' = "grouping"
    /\ UNCHANGED <<parser, docvars, callvars, scan, first_run, made,
                   store, batch, published, bus>>

\* run_next_batch_speech_summarisation, lines 229-236: the next part of
\* the read-back.
GroupPart ==
    /\ pc = "grouping"
    /\ grp.next <= Len(grp.speech_parts)
    /\ grp' = GroupStep(grp)
    /\ UNCHANGED <<parser, pc, docvars, callvars, scan, first_run, made,
                   store, batch, published, bus>>

\* run_next_batch_speech_summarisation, lines 237-238: after the loop.
GroupLast ==
    /\ pc = "grouping"
    /\ grp.next > Len(grp.speech_parts)
    /\ grp' = GroupEnd(grp)
    /\ pc' = "grouped"
    /\ UNCHANGED <<parser, docvars, callvars, scan, first_run, made,
                   store, batch, published, bus>>

NextGrouping ==
    \/ UpsertParts
    \/ ListSpeechParts
    \/ GroupPart
    \/ GroupLast

SpecGrouping == InitGrouping /\ [][NextGrouping]_vars

\* ------------------------------------------------ parse_many and parse_one
\* The session files of a batch: the date of the session, the <talker>
\* tags of the soup and the tags parse() finds.  parse_talkers() reads
\* every <talker> of the file before parse() does, so the speeches that
\* parse() reaches hold no talker without a name.
NextDate == <<"2", "0", "2", "5", "-", "1", "0", "-", "1", "0">>
BatchDates == {SessionDate, NextDate}
BatchTalkers == {<<TalkerA, TalkerB>>, <<TalkerA, TalkerNoName>>}
BatchTags ==
    [ debates |-> {t \in DebateTags : ExtractDebateCategory(t) = BILLS},
      subdebates_1 |-> {t \in Subdebate1Tags :
                            t.title = <<"T">> /\ t.hrefs = <<>>},
      subdebates_2 |-> {t \in Subdebate2Tags :
                            ExtractDebateTitle(t) = FirstReading},
      speeches |-> {t \in SpeechTags :
                        /\ t.start = TalkerA
                        /\ t.ps # <<>>
                        /\ IsInterjection(t.ps[1]) = "NONE"},
      max |-> MaxBatchNodes ]

\* parse_one(house, filepath, ..., publisher) or parse_many(house,
\* new_session_files, ..., publisher) is called: `speech_ids = set()`.
ServiceInit(entry, publisher) ==
    [ entry |-> entry, publisher |-> publisher, files |-> 0,
      speech_ids |-> {}, talkers |-> {}, saved |-> {} ]

InitBatch ==
    /\ parser = ParserInit(HOR)
    /\ pc = "next_file"
    /\ doc = <<>>
    /\ at = [debate |-> 0, subdebate_1 |-> 0, subdebate_2 |-> 0]
    /\ origin = <<>>
    /\ call = NoCall
    /\ loop = LoopInit
    /\ paras = <<>>
    /\ chambers = <<>>
    /\ scan = ScanInit
    /\ first_run = NoRun
    /\ made = NoResult
    /\ store = {}
    /\ grp = NoGrouping
    /\ published = <<>>
    /\ bus = BusInit
    /\ \/ batch = ServiceInit("parse_many", TRUE)
       \/ \E publisher \in BOOLEAN :
              batch = ServiceInit("parse_one", publisher)

\* The loop of parse_many has a further file (parse_one: its one file).
MoreFiles ==
    /\ batch.files < MaxFiles
    /\ batch.entry = "parse_one" => batch.files = 0

\* `parser = Parser(house, filepath); talkers = parser.parse_talkers()`
\* (services.py, 130-131 and 154-155).  An error of parse_talkers leaves
\* the service.
OpenFile ==
    /\ pc = "next_file"
    /\ MoreFiles
    /\ \E date \in BatchDates, talker_tags \in BatchTalkers :
           LET talkers == ParseTalkersLoop(ScanInit.parse_talkers,
                                           talker_tags)
           IN  /\ parser' = [NewParser(parser.house) EXCEPT !.date = date]
               /\ batch' = [batch EXCEPT
                                !.talkers = IF talkers.raised THEN @
                                            ELSE ToSet(talkers.talkers)]
               /\ pc' = IF talkers.raised THEN "talkers_raised"
                        ELSE "start"
    /\ doc' = <<>>
    /\ at' = [debate |-> 0, subdebate_1 |-> 0, subdebate_2 |-> 0]
    /\ origin' = <<>>
    /\ chambers' = <<>>
    /\ UNCHANGED <<callvars, scan, first_run, made, store, grp,
                   published, bus>>

\* parse() returned: `speech_ids.update(parser.speech_ids)` (parse_many),
\* `await speech_part_repo.upsert(parser.parts)` and
\* `await talker_repo.save_talkers(talkers)` (services.py, 133-134 and
\* 157-159).
Ingest ==
    /\ pc = "done"
    /\ batch # NoBatch
    /\ batch' = [batch EXCEPT
                     !.speech_ids = IF batch.entry = "parse_many"
                                    THEN @ \cup parser.speech_ids ELSE @,
                     !.saved = @ \cup batch.talkers,
                     !.files = @ + 1]
    /\ store' = Upsert(store, parser.parts)
    /\ pc' = "next_file"
    /\ UNCHANGED <<parser, docvars, callvars, scan, first_run, made, grp,
                   published, bus>>

\* The "parser.completed" event of publisher.publish (services.py, 135-141
\* and 160-165).
Event ==
    [ topic |-> "parser.completed",
      speech_ids |-> IF batch.entry = "parse_many" THEN batch.speech_ids
                     ELSE parser.speech_ids,
      house |-> parser.house ]

\* After the loop of parse_many, or after the file of parse_one when it
\* has a publisher: publisher.publish(...).
Publish ==
    published' = IF batch.publisher THEN Append(published, Event)
                 ELSE published

\* The service has handled its files: it publishes and returns.
ReturnService ==
    /\ pc = "next_file"
    /\ batch.entry = "parse_one" => batch.files = 1
    /\ Publish
    /\ pc' = "service_returned"
    /\ UNCHANGED <<parser, docvars, callvars, scan, first_run, made, store,
                   grp, batch, bus>>

NextBatch ==
    \/ OpenFile
    \/ VisitChamber
    \/ VisitDebate(BatchTags)
    \/ VisitSubdebate1(BatchTags)
    \/ VisitSpeech1(BatchTags)
    \/ VisitSubdebate2(BatchTags)
    \/ VisitSpeech2(BatchTags)
    \/ Finish
    \/ Ingest
    \/ ReturnService

SpecBatch == InitBatch /\ [][NextBatch]_vars

\* ------------------------------------------------------ talker extraction
InitTalkers ==
    /\ parser = ParserInit(HOR)
    /\ pc = "talkers"
    /\ doc = <<>>
    /\ at = [debate |-> 0, subdebate_1 |-> 0, subdebate_2 |-> 0]
    /\ origin = <<>>
    /\ call = NoCall
    /\ loop = LoopInit
    /\ paras = <<>>
    /\ chambers = <<>>
    /\ scan = ScanInit
    /\ first_run = NoRun
    /\ made = NoResult
    /\ StoreInit

\* The next <talker> of soup.find_all("talker"), handed to the loop of
\* Parser.parse_talkers (parser.py, 163-164) and to the loop of
\* Talker.extract_talkers (talker.py, 52-76).
ScanTalker ==
    /\ pc = "talkers"
    /\ Len(scan.tags) < MaxTalkers
    /\ \E talker_tag \in TalkerTags :
           scan' = [scan EXCEPT
                       !.tags = Append(@, talker_tag),
                       !.parse_talkers = ParseTalkersStep(@, talker_tag),
                       !.extract_talkers = ExtractTalkersStep(@, talker_tag)]
    /\ UNCHANGED <<parser, pc, docvars, callvars, first_run, made, storevars>>

\* `return list(set(talkers))` of both (parser.py, 165; talker.py, 77);
\* parse_talkers has no result when extract_talker raised.
ReturnTalkers ==
    /\ pc = "talkers"
    /\ scan' = [scan EXCEPT !.result =
                    [ parse_talkers |-> IF scan.parse_talkers.raised THEN {}
                                        ELSE ToSet(scan.parse_talkers.talkers),
                      extract_talkers |-> ToSet(scan.extract_talkers) ]]
    /\ pc' = "talkers_returned"
    /\ UNCHANGED <<parser, docvars, callvars, first_run, made, storevars>>

NextTalkers ==
    \/ ScanTalker
    \/ ReturnTalkers

SpecTalkers == InitTalkers /\ [][NextTalkers]_vars

\* ------------------------------------------ publisher and subscribers
\* The lists of topics handed to subscribe.
TopicLists ==
    { <<"parser.completed">>, <<"nlp.batch_completed">>,
      <<"parser.completed", "nlp.batch_completed">>,
      <<"parser.completed", "parser.completed">> }

\* The events handed to publish: the n-th has the id n, and a topic or
\* none.
EventInputs(n) ==
    {[topic |-> topic, id |-> n] : topic \in Topics} \cup {[id |-> n]}

InitEvents ==
    /\ parser = ParserInit(HOR)
    /\ pc = "events"
    /\ doc = <<>>
    /\ at = [debate |-> 0, subdebate_1 |-> 0, subdebate_2 |-> 0]
    /\ origin = <<>>
    /\ call = NoCall
    /\ loop = LoopInit
    /\ paras = <<>>
    /\ chambers = <<>>
    /\ scan = ScanInit
    /\ first_run = NoRun
    /\ made = NoResult
    /\ StoreInit

eventframe ==
    <<parser, pc, docvars, callvars, scan, first_run, made, store, grp,
      batch>>

\* `await subscriber.subscribe(topics)` (managers.py, 95-97): it has no
\* await inside, so it runs in one piece.
SubscribeCall(s) ==
    /\ pc = "events"
    /\ \E topics \in TopicLists : bus' = Subscribe(bus, s, topics)
    /\ UNCHANGED <<eventframe, published>>

\* publisher.publish(event), a synchronous call.
PublishCall ==
    /\ pc = "events"
    /\ Len(published) < MaxEvents
    /\ \E event \in EventInputs(Len(published) + 1) :
          /\ published' = Append(published, event)
          /\ bus' = [PublishEvent(bus, event) EXCEPT
                        !.audience =
                            Append(@, IF "topic" \in DOMAIN event
                                      THEN {s \in Subscribers :
                                               event.topic
                                                   \in bus.subs[s].topics}
                                      ELSE {})]
    /\ UNCHANGED eventframe

\* The worker of s takes the next event of its queue.
Get(s) ==
    /\ pc = "events"
    /\ bus.subs[s].worker = "waiting"
    /\ bus.subs[s].queue # <<>>
    /\ bus' = [bus EXCEPT !.subs[s] = GetMessage(@)]
    /\ UNCHANGED <<eventframe, published>>

\* The handler of s ends, by returning or by raising.
Handle(s) ==
    /\ pc = "events"
    /\ bus.subs[s].worker = "handling"
    /\ \E outcome \in {"returned", "raised"} :
          bus' = [bus EXCEPT !.subs[s] = HandleEvent(@, outcome)]
    /\ UNCHANGED <<eventframe, published>>

\* The worker task of s is cancelled (the event loop is shut down).
Cancel(s) ==
    /\ pc = "events"
    /\ bus.subs[s].worker \in {"waiting", "handling"}
    /\ bus' = [bus EXCEPT !.subs[s] = CancelWorker(@)]
    /\ UNCHANGED <<eventframe, published>>

NextEvents ==
    \/ \E s \in Subscribers : SubscribeCall(s)
    \/ PublishCall
    \/ \E s \in Subscribers : Get(s)
    \/ \E s \in Subscribers : Handle(s)
    \/ \E s \in Subscribers : Cancel(s)

\* The event loop runs a worker that can go on: a worker whose queue holds
\* an event takes it, and a handler ends.
SpecEvents ==
    /\ InitEvents
    /\ [][NextEvents]_vars
    /\ \A s \in Subscribers : WF_vars(Get(s)) /\ WF_vars(Handle(s))

\* =================================================================== claims
Parts == parser.parts
SpeechParts == {i \in 1..Len(Parts) : Parts[i].type = "speech"}
\* The tag of the document the part i was emitted under, of the given kind.
TagOf(i, kind) == doc[origin[i][kind]].tag

\* C1: after parse() over any document every element of parser.parts has a
\* part_id different from the part_id of every other element.
C1_PartIdsUnique ==
    \A i, j \in 1..Len(Parts) :
        i # j => PartId(Parts[i]) # PartId(Parts[j])

\* C2: for every SpeechPart, part_id is speech_id followed by "_" and the
\* part_seq, and all the segments one parse_speech call returned have the
\* same speech_id.
C2_SpeechIdIsPrefix ==
    /\ \A i \in SpeechParts :
           PartId(Parts[i]) =
               SpeechId(Parts[i]) \o <<"_">> \o ToStr(Parts[i].part_seq)
    /\ \A i, j \in SpeechParts :
           origin[i].speech = origin[j].speech
               => SpeechId(Parts[i]) = SpeechId(Parts[j])

\* A parse_speech call has added two segments of different part_seq.
C2_Witness ==
    \E i, j \in SpeechParts :
        /\ origin[i].speech = origin[j].speech
        /\ Parts[i].part_seq # Parts[j].part_seq

\* ---- shapes of the paragraphs of a speech
Unmarked(p) == ~IsContinuation(p) /\ IsInterjection(p) = "NONE"
Attributable(p) ==
    ~IsContinuation(p) /\ IsInterjection(p) \in {"MEMBER", "OFFICE"}
ContinuationOnly(p) == IsContinuation(p) /\ IsInterjection(p) = "NONE"

\* The paragraphs from..to are all ordinary.
AllUnmarked(from, to) == \A k \in from..to : Unmarked(paras[k])

\* The call has a primary speaker with an id and a first interjector with
\* another id.
OtherInterjector ==
    /\ call # NoCall
    /\ call.main_talker.id # None
    /\ call.interjections # <<>>
    /\ call.interjections[1].id \notin {None, call.main_talker.id}

\* The text of paragraphs from..to, the first cleaned, the others verbatim,
\* a blank line between them.
ContentOf(from, to) ==
    Join([k \in 1..(to - from + 1) |->
              IF k = 1 THEN CleanText(GetText(paras[from]))
              ELSE GetText(paras[from + k - 1])],
         NL2)

\* C3: a speech whose paragraphs carry no interjection and no continuation
\* marker returns exactly one segment, whatever the number (at least one)
\* of paragraphs: type SPEECH, part_seq 0, owned by the primary speaker,
\* its content every paragraph in order.
C3_UnmarkedSpeechIsOneSegment ==
    ( /\ call # NoCall
      /\ call.main_talker.id # None
      /\ paras # <<>>
      /\ AllUnmarked(1, Len(paras)) )
    => /\ pc # "call_raised"
       /\ pc = "returned" =>
            /\ Len(loop.segments) = 1
            /\ loop.segments[1].type = "speech"
            /\ loop.segments[1].speech_part_type = "speech"
            /\ loop.segments[1].part_seq = 0
            /\ loop.segments[1].talker_id = call.main_talker.id
            /\ loop.segments[1].speech_content = ContentOf(1, Len(paras))

\* A speech of several ordinary paragraphs has returned.
C3_Witness ==
    /\ pc = "returned"
    /\ Len(paras) >= 3
    /\ AllUnmarked(1, Len(paras))
    /\ Len(loop.segments) = 1

\* C4: ordinary paragraphs of the primary speaker followed by one
\* attributable interjection paragraph of another speaker return exactly two
\* segments: SPEECH with part_seq 0 of the primary speaker, INTERJECTION
\* with part_seq 1 of the interjector.
C4_SingleInterjection ==
    ( /\ OtherInterjector
      /\ Len(paras) >= 2
      /\ AllUnmarked(1, Len(paras) - 1)
      /\ Attributable(paras[Len(paras)]) )
    => /\ pc # "call_raised"
       /\ pc = "returned" =>
            /\ Len(loop.segments) = 2
            /\ loop.segments[1].speech_part_type = "speech"
            /\ loop.segments[1].part_seq = 0
            /\ loop.segments[1].talker_id = call.main_talker.id
            /\ loop.segments[2].speech_part_type = "interjection"
            /\ loop.segments[2].part_seq = 1
            /\ loop.segments[2].talker_id = call.interjections[1].id

C4_Witness ==
    /\ pc = "returned"
    /\ OtherInterjector
    /\ Len(paras) >= 3
    /\ AllUnmarked(1, Len(paras) - 1)
    /\ Attributable(paras[Len(paras)])
    /\ Len(loop.segments) = 2

\* The paragraphs are: ordinary ones up to k - 1, an attributable
\* interjection at k, a continuation-marked paragraph at k + 1, then
\* ordinary ones.
InterjectionThenContinuation(k) ==
    /\ k >= 2 /\ k + 1 <= Len(paras)
    /\ AllUnmarked(1, k - 1)
    /\ Attributable(paras[k])
    /\ ContinuationOnly(paras[k + 1])
    /\ AllUnmarked(k + 2, Len(paras))

\* C5: primary-speaker paragraphs, one attributable interjection of another
\* speaker, a continuation-marked paragraph and optionally further ordinary
\* paragraphs return exactly three segments of types SPEECH, INTERJECTION,
\* CONTINUATION and part_seq 0, 1, 2, the third owned by the primary
\* speaker.
C5_InterjectionAndContinuation ==
    ( /\ OtherInterjector
      /\ \E k \in 1..Len(paras) : InterjectionThenContinuation(k) )
    => /\ pc # "call_raised"
       /\ pc = "returned" =>
            /\ Len(loop.segments) = 3
            /\ loop.segments[1].speech_part_type = "speech"
            /\ loop.segments[2].speech_part_type = "interjection"
            /\ loop.segments[3].speech_part_type = "continuation"
            /\ \A n \in 1..3 : loop.segments[n].part_seq = n - 1
            /\ loop.segments[3].talker_id = call.main_talker.id

\* Such a speech, with an ordinary paragraph after the continuation, has
\* returned.
C5_Witness ==
    /\ pc = "returned"
    /\ OtherInterjector
    /\ InterjectionThenContinuation(2)
    /\ Len(paras) = 4
    /\ Len(loop.segments) = 3

\* ---- the document as the parts see it
IsBillsDebate(i) == ExtractDebateCategory(TagOf(i, "debate")) = BILLS

\* C6: in a debate whose category is exactly "BILLS" every segment emitted
\* under a first-level subdebate carries exactly the bill identifiers
\* anchored inside that subdebate (none when it anchors none), whatever the
\* subdebates before it anchored.
C6_BillIdsOfOwnSubdebate ==
    \A i \in 1..Len(Parts) :
        IsBillsDebate(i) =>
            LET hrefs == TagOf(i, "subdebate_1").hrefs
                bill_ids == Parts[i].bill_ids
            IN  IF hrefs = <<>> THEN bill_ids = NoneList
                ELSE /\ bill_ids # NoneList
                     /\ Len(bill_ids) = Len(hrefs)
                     /\ \A k \in 1..Len(hrefs) : bill_ids[k] = Strip(hrefs[k])

\* Two consecutive first-level subdebates of a BILLS debate that anchor
\* different bills have both emitted segments.
C6_Witness ==
    \E i, j \in 1..Len(Parts) :
        /\ IsBillsDebate(i)
        /\ origin[i].debate = origin[j].debate
        /\ origin[i].subdebate_1 < origin[j].subdebate_1
        /\ \A k \in (origin[i].subdebate_1 + 1)..(origin[j].subdebate_1 - 1) :
               doc[k].kind # "subdebate.1"
        /\ Parts[i].bill_ids # NoneList
        /\ Parts[j].bill_ids # NoneList
        /\ Len(Parts[j].bill_ids) > 1
        /\ Parts[i].bill_ids # Parts[j].bill_ids

\* C7: every segment, speech segment or first-reading marker, emitted under
\* a debate whose category is not exactly "BILLS" has bill_ids None.
C7_NoBillIdsOutsideBills ==
    \A i \in 1..Len(Parts) :
        ~IsBillsDebate(i) => Parts[i].bill_ids = NoneList

\* A segment was emitted under a non-BILLS debate whose subdebate anchors a
\* bill, after a BILLS debate with a titled subdebate that anchors bills.
C7_Witness ==
    /\ Len(doc) >= 2
    /\ doc[1].kind = "debate"
    /\ ExtractDebateCategory(doc[1].tag) = BILLS
    /\ doc[2].kind = "subdebate.1"
    /\ ExtractDebateTitle(doc[2].tag) # None
    /\ doc[2].tag.hrefs # <<>>
    /\ \E j \in 1..Len(Parts) :
           /\ origin[j].debate > 2
           /\ ~IsBillsDebate(j)
           /\ TagOf(j, "subdebate_1").hrefs # <<>>

\* The <subdebate.2> tags of the document.
Subdebates2 == {k \in 1..Len(doc) : doc[k].kind = "subdebate.2"}
MarkersOf(k) ==
    {i \in 1..Len(Parts) :
         origin[i].subdebate_2 = k /\ Parts[i].type = "first_reading"}
SpeechPartsOf(k) ==
    {i \in 1..Len(Parts) :
         origin[i].subdebate_2 = k /\ Parts[i].type = "speech"}

\* C8: each second-level subdebate titled exactly "First Reading" adds
\* exactly one FIRST_READING marker, before every speech segment of that
\* subdebate and also when it has no speech; a second-level subdebate with
\* another title adds no marker.
C8_OneFirstReadingMarker ==
    \A k \in Subdebates2 :
        /\ Cardinality(MarkersOf(k)) =
               IF ExtractDebateTitle(doc[k].tag) = FirstReading THEN 1 ELSE 0
        /\ \A i \in MarkersOf(k), j \in SpeechPartsOf(k) : i < j

\* The parse is over; one "First Reading" subdebate without speeches has
\* its marker, another one has its marker before its speech segments.
C8_Witness ==
    /\ pc = "done"
    /\ \E k, l \in Subdebates2 :
           /\ MarkersOf(k) # {} /\ SpeechPartsOf(k) = {}
           /\ MarkersOf(l) # {} /\ SpeechPartsOf(l) # {}

\* The first <p> of the speech tag carries a continuation or an
\* attributable interjection marker.
FirstParagraphFatal(speech_tag) ==
    /\ speech_tag.ps # <<>>
    /\ \/ IsContinuation(speech_tag.ps[1])
       \/ IsInterjection(speech_tag.ps[1]) \in {"MEMBER", "OFFICE"}

LastTag == doc[Len(doc)]

\* C9: when the first paragraph of a speech is a continuation or an
\* attributable interjection, parse_speech fails, the error leaves parse(),
\* and the speech adds nothing to parser.parts nor to parser.speech_ids.
C9_FatalFirstParagraph ==
    [][ ( /\ Len(doc') = Len(doc) + 1
          /\ LastTag'.kind = "speech"
          /\ FirstParagraphFatal(LastTag'.tag) )
        => /\ pc' = "raised"
           /\ parser'.parts = parser.parts
           /\ parser'.speech_ids = parser.speech_ids ]_vars

\* parse() has raised on a speech whose first paragraph is an attributable
\* interjection, after it had emitted segments of earlier speeches.
C9_Witness ==
    /\ pc = "raised"
    /\ Parts # <<>>
    /\ LastTag.kind = "speech"
    /\ FirstParagraphFatal(LastTag.tag)
    /\ IsInterjection(LastTag.tag.ps[1]) \in {"MEMBER", "OFFICE"}

\* Whether the tag doc[k] is skipped: a debate without category, a
\* subdebate without title.
Skipped(k) ==
    \/ doc[k].kind = "debate" /\ ExtractDebateCategory(doc[k].tag) = None
    \/ /\ doc[k].kind \in {"subdebate.1", "subdebate.2"}
       /\ ExtractDebateTitle(doc[k].tag) = None

\* The loop of parse_speeches that iterates over the tags of a kind.
LoopOf(kind) ==
    IF kind = "debate" THEN "debates"
    ELSE IF kind = "subdebate.1" THEN "subdebates_1"
    ELSE "subdebates_2"

\* No segment was emitted under a skipped tag.
NothingUnderSkipped ==
    \A k \in 1..Len(doc) :
        Skipped(k) =>
            \A i \in 1..Len(Parts) :
                k \notin {origin[i].debate, origin[i].subdebate_1,
                          origin[i].subdebate_2}

\* C10: a debate without category and a first- or second-level subdebate
\* without title contribute no segment, and the parse does not abort: the
\* step that skips the tag leaves the traversal in the loop over the tag's
\* siblings, where the tags after it are visited.
C10_SkippedNodes ==
    /\ []NothingUnderSkipped
    /\ [][ (Len(doc') = Len(doc) + 1 /\ Skipped(Len(doc))')
            => /\ pc' = LoopOf(LastTag'.kind)
               /\ parser'.parts = parser.parts ]_vars

\* A tag was skipped (a debate, a first-level or a second-level subdebate)
\* and a later sibling of it has emitted a segment.
C10_Witness ==
    \E k \in 1..Len(doc), i \in 1..Len(Parts) :
        /\ Skipped(k)
        /\ \/ /\ doc[k].kind = "debate"
              /\ origin[i].debate > k
              /\ parser.chamber = HOR_MAIN
           \/ /\ doc[k].kind = "subdebate.1"
              /\ origin[i].subdebate_1 > k
              /\ origin[i].debate < k
           \/ /\ doc[k].kind = "subdebate.2"
              /\ origin[i].subdebate_2 > k
              /\ origin[i].subdebate_1 < k


\* A <talker> tag without a name: its <name> is missing or blank.
MissingName(talker_tag) ==
    talker_tag # NoTag /\ Not(TextStripOrNone(talker_tag.name))

\* The speech tag holds a speaker record without a name, as its start
\* talker or as an interjection talker.
HoldsNamelessTalker(speech_tag) ==
    \/ MissingName(speech_tag.start)
    \/ \E i \in 1..Len(speech_tag.interjections) :
           MissingName(speech_tag.interjections[i])

\* C11: a speaker record with missing fields never surfaces as an error:
\* parse_talkers() does not raise, and parse() does not raise at a speech
\* that holds a speaker record without a name.
C11_SpeakerGapsTolerated ==
    /\ ~scan.parse_talkers.raised
    /\ (pc = "raised" /\ doc # <<>>) =>
           ~HoldsNamelessTalker(doc[Len(doc)].tag)

\* The content of a part: the text of a segment, None for a marker.
PartContent(part) ==
    IF part.type = "speech" THEN part.speech_content ELSE None

\* The second run of parse() has read all the tags the first run read.
SecondRunOver == first_run # NoRun /\ doc = first_run.doc

LowestPartSeq(parts) ==
    CHOOSE n \in {parts[i].part_seq : i \in 1..Len(parts)} :
        \A i \in 1..Len(parts) : n <= parts[i].part_seq

\* The sequence t holds the elements of s, each as often as s does.
IsPermutation(s, t) ==
    /\ Len(s) = Len(t)
    /\ \A x \in {s[i] : i \in 1..Len(s)} :
           Cardinality({i \in 1..Len(s) : s[i] = x})
               = Cardinality({i \in 1..Len(t) : t[i] = x})

\* C13: Speech.from_parts raises on an empty list; on a non-empty list in
\* any order it gives a Speech that holds the parts given in ascending
\* part_seq order, whose id, title and talker_id are those of a part with
\* the lowest part_seq.
C13_FromParts ==
    /\ pc = "from_parts_raised" <=>
           (made # NoResult /\ made.speech # NoResult /\ made.parts = <<>>)
    /\ pc = "from_parts_returned" =>
           LET speech == made.speech
               n == Len(speech.parts)
           IN  /\ n > 0
               /\ IsPermutation(made.parts, speech.parts)
               /\ \A i \in 1..(n - 1) :
                      speech.parts[i].part_seq <= speech.parts[i + 1].part_seq
               /\ \E j \in 1..n :
                      /\ made.parts[j].part_seq = LowestPartSeq(made.parts)
                      /\ SpeechIdOf(speech) = SpeechId(made.parts[j])
                      /\ SpeechTitle(speech) = made.parts[j].subdebate_1_title
                      /\ SpeechTalkerId(speech) = made.parts[j].talker_id

\* C13 witness: from_parts returned for three parts given in descending
\* part_seq order.
C13_Witness ==
    /\ pc = "from_parts_returned"
    /\ Len(made.parts) = 3
    /\ made.parts[1].part_seq = 2
    /\ made.parts[2].part_seq = 1
    /\ made.parts[3].part_seq = 0
    /\ SpeechTalkerId(made.speech) = made.parts[3].talker_id
    /\ made.parts[1].talker_id # made.parts[3].talker_id

\* The segments of the collection that belong to the speech.
SegmentsOf(speech_id) ==
    {q \in store : q.type = "speech" /\ SpeechId(q) = speech_id}

\* The speech ids asked for that the collection holds segments of.
SpeechIdsRead == {id \in grp.speech_ids : SegmentsOf(id) # {}}

\* The lists that hold each element of the set once.
Orderings(S) ==
    {f \in [1..Cardinality(S) -> S] :
         \A i, j \in 1..Cardinality(S) : i # j => f[i] # f[j]}

\* C14: the one-pass grouping over the read-back gives exactly one Speech
\* per distinct speech_id read, and each Speech is what Speech.from_parts
\* gives for the segments of that speech, in whatever order they are
\* handed to it.
C14_GroupingIsFromParts ==
    pc = "grouped" =>
        /\ Len(grp.speeches) = Cardinality(SpeechIdsRead)
        /\ \A id \in SpeechIdsRead :
               \E k \in 1..Len(grp.speeches) :
                   /\ SpeechIdOf(grp.speeches[k]) = id
                   /\ \A parts \in Orderings(SegmentsOf(id)) :
                          grp.speeches[k] = FromParts(parts)

\* C14 witness: the grouping gave two speeches, one of two segments, and
\* left out a stored document: a marker or a segment of a speech that was
\* not asked for.
C14_Witness ==
    /\ pc = "grouped"
    /\ Len(grp.speeches) = 2
    /\ \E k \in 1..Len(grp.speeches) : Len(grp.speeches[k].parts) = 2
    /\ \E q \in store :
           \/ q.type = "first_reading"
           \/ q.type = "speech" /\ SpeechId(q) \notin grp.speech_ids

\* The speaker has id, name, electorate and party, none of them empty.
CompleteSpeaker(talker) ==
    /\ ~Not(talker.id)
    /\ ~Not(talker.name)
    /\ ~Not(talker.electorate)
    /\ ~Not(talker.party)

\* The speaker a raw <talker> record stands for.
SpeakerOf(talker_tag) ==
    [ id |-> TextStripOrNone(talker_tag.id),
      name |-> TextStripOrNone(talker_tag.name),
      electorate |-> TextStripOrNone(talker_tag.electorate),
      party |-> TextStripOrNone(talker_tag.party) ]

\* C15: every speaker that Talker.extract_talkers and Parser.parse_talkers
\* return has id, name, electorate and party present and non-empty, and a
\* raw record that misses one of the four is not in the result.
C15_ReturnedSpeakersComplete ==
    pc = "talkers_returned" =>
        LET returned == scan.result.extract_talkers
                            \cup scan.result.parse_talkers
        IN  /\ \A talker \in returned : CompleteSpeaker(talker)
            /\ \A i \in 1..Len(scan.tags) :
                   ~CompleteSpeaker(SpeakerOf(scan.tags[i])) =>
                       SpeakerOf(scan.tags[i]) \notin returned

\* The part of C15 that is about Talker.extract_talkers alone.
ExtractTalkersComplete ==
    pc = "talkers_returned" =>
        /\ \A talker \in scan.result.extract_talkers :
               CompleteSpeaker(talker)
        /\ \A i \in 1..Len(scan.tags) :
               CompleteSpeaker(SpeakerOf(scan.tags[i])) <=>
                   SpeakerOf(scan.tags[i]) \in scan.result.extract_talkers

\* The speech ids whose segments the collection holds.
StoredSpeechIds == {SpeechId(q) : q \in {x \in store : x.type = "speech"}}

\* The speech ids announced for the house in "parser.completed" events.
AnnouncedSpeechIds(house) ==
    UNION {published[i].speech_ids :
               i \in {j \in 1..Len(published) :
                          /\ published[j].topic = "parser.completed"
                          /\ published[j].house = house}}

\* The call of parse_many, or of parse_one with a publisher, is over: it
\* returned or an error left it.
ServiceOver ==
    /\ batch # NoBatch
    /\ batch.publisher
    /\ pc \in {"service_returned", "raised", "talkers_raised"}

\* C16: every speech id whose segments parse_many (or parse_one with a
\* publisher) upserted is in the speech_ids of a published
\* "parser.completed" event for the house once the call is over.
C16_UpsertedIdsAnnounced ==
    ServiceOver => StoredSpeechIds \subseteq AnnouncedSpeechIds(parser.house)

\* The part of C16 that holds: when the call returns, one event was
\* published and its speech_ids are the ids of all the segments upserted.
AnnouncedOnReturn ==
    (ServiceOver /\ pc = "service_returned") =>
        /\ Len(published) = 1
        /\ published[1].speech_ids = StoredSpeechIds

\* The tags of a kind visited before the tag k and after the tag `from`
\* that were not skipped.
CountedBefore(kind, from, k) ==
    Cardinality({j \in (from + 1)..(k - 1) :
                     doc[j].kind = kind /\ ~Skipped(j)})

\* The part i is the first part of its debate, and no debate before it
\* emitted a part.
InFirstEmittingDebate(i) ==
    \A j \in 1..Len(Parts) : origin[j].debate >= origin[i].debate

\* C17 as stated: the debates that emit segments receive strictly
\* increasing debate_seq values in traversal order, across the chambers,
\* and the first of them receives 0.
C17_DebateSeqFromZero ==
    /\ \A i, j \in 1..Len(Parts) :
           origin[i].debate < origin[j].debate =>
               Parts[i].debate_seq < Parts[j].debate_seq
    /\ \A i \in 1..Len(Parts) :
           InFirstEmittingDebate(i) => Parts[i].debate_seq = 0

\* C17 amended: debate_seq is not reset between the chambers: the
\* debate_seq of every part is the number of debates with a category that
\* the document holds before the debate of the part, in whichever chamber,
\* whether or not they emitted a part; so the values strictly increase
\* over the debates that emit parts.
C17_DebateSeqCountsDebates ==
    /\ \A i \in 1..Len(Parts) :
           Parts[i].debate_seq = CountedBefore("debate", 0, origin[i].debate)
    /\ \A i, j \in 1..Len(Parts) :
           origin[i].debate < origin[j].debate =>
               Parts[i].debate_seq < Parts[j].debate_seq

\* C17 witness: a part of the federation chamber has debate_seq 1, after a
\* debate with a category in the main chamber.
C17_Witness ==
    /\ Len(chambers) = 2
    /\ chambers[2].before >= 1
    /\ \E i \in 1..Len(Parts) :
           /\ Parts[i].chamber = HOR_FEDERATION
           /\ Parts[i].debate_seq = 1
           /\ origin[i].debate > chambers[2].before

\* The parts emitted by direct speeches of a <subdebate.1> and the parts
\* emitted under a <subdebate.2>.
DirectParts == {i \in SpeechParts : origin[i].subdebate_2 = 0}
Subdebate2Parts == {i \in 1..Len(Parts) : origin[i].subdebate_2 # 0}

\* No tag of the kind lies after the tag `from` and before the tag k.
FirstAfter(kind, from, k) ==
    \A j \in (from + 1)..(k - 1) : doc[j].kind # kind

\* C18 as stated: in every debate the first <subdebate.1> that emits
\* segments has subdebate_1_seq 0; the direct speeches of a <subdebate.1>
\* have speech_seq 0, 1, 2, ...; the first <subdebate.2> of a
\* <subdebate.1> has subdebate_2_seq 0; the first speech of a
\* <subdebate.2> has speech_seq 0.
C18_CountersRestart ==
    /\ \A i \in 1..Len(Parts) :
           (\A j \in 1..Len(Parts) :
                origin[j].debate = origin[i].debate =>
                    origin[j].subdebate_1 >= origin[i].subdebate_1)
               => Parts[i].subdebate_1_seq = 0
    /\ \A i \in DirectParts :
           Parts[i].speech_seq =
               CountedBefore("speech", origin[i].subdebate_1, origin[i].speech)
    /\ \A i \in Subdebate2Parts :
           FirstAfter("subdebate.2", origin[i].subdebate_1,
                      origin[i].subdebate_2)
               => Parts[i].subdebate_2_seq = 0
    /\ \A i \in Subdebate2Parts \cap SpeechParts :
           FirstAfter("speech", origin[i].subdebate_2, origin[i].speech)
               => Parts[i].speech_seq = 0

\* C18 amended: the subdebate_1_seq of a part is the number of titled
\* <subdebate.1> before its own in the debate (the first titled one has 0,
\* whether or not it emits a part); the direct speeches of a <subdebate.1>
\* have speech_seq 0, 1, 2, ...; the subdebate_2_seq of a part under a
\* <subdebate.2> is the number of titled <subdebate.2> before it in the
\* <subdebate.1>; the speeches of a <subdebate.2> have speech_seq 0, 1, ...
C18_CountersCountTags ==
    /\ \A i \in 1..Len(Parts) :
           Parts[i].subdebate_1_seq =
               CountedBefore("subdebate.1", origin[i].debate,
                             origin[i].subdebate_1)
    /\ \A i \in DirectParts :
           Parts[i].speech_seq =
               CountedBefore("speech", origin[i].subdebate_1, origin[i].speech)
    /\ \A i \in Subdebate2Parts :
           Parts[i].subdebate_2_seq =
               CountedBefore("subdebate.2", origin[i].subdebate_1,
                             origin[i].subdebate_2)
    /\ \A i \in Subdebate2Parts \cap SpeechParts :
           Parts[i].speech_seq =
               CountedBefore("speech", origin[i].subdebate_2, origin[i].speech)

\* C18 witness: after a titled <subdebate.1> that emitted nothing, a
\* <subdebate.1> with two direct speeches: their parts have subdebate_1_seq
\* 1 and speech_seq 0 and 1.
C18_Witness ==
    \E i, j \in DirectParts :
        /\ origin[i].subdebate_1 = origin[j].subdebate_1
        /\ InFirstEmittingDebate(i)
        /\ Parts[i].subdebate_1_seq = 1
        /\ Parts[i].speech_seq = 0
        /\ Parts[j].speech_seq = 1

\* The subdebate-2 component of the identifier of a part: the sixth of the
\* fields that _get_id joins.
Subdebate2Component(part) == NoneIfNone(part.subdebate_2_seq)

\* C19: every segment of a speech that is a direct child of a
\* <subdebate.1> carries no second-level subdebate title, info or sequence
\* number, so the subdebate-2 component of its identifier is "none",
\* whatever was traversed before it.
C19_DirectSpeechHasNoSubdebate2 ==
    \A i \in DirectParts :
        /\ Parts[i].subdebate_2_title = None
        /\ Parts[i].subdebate_2_info = None
        /\ Parts[i].subdebate_2_seq = NoneInt
        /\ Subdebate2Component(Parts[i]) = <<"n", "o", "n", "e">>

\* The loop of parse_speech handles the paragraph p in this step.
Handles(p) ==
    /\ pc = "paragraphs"
    /\ paras' = Append(paras, p)

\* The open segment is owned by the primary speaker.
OpenSegmentOfPrimary ==
    /\ loop.prev_speech_part # NoPart
    /\ loop.prev_speech_part.talker_id = call.main_talker.id

\* C20: a paragraph with the continuation marker and no interjection
\* marker, handled while the open segment is owned by the primary speaker,
\* closes and opens no segment, leaves part_seq and the type of the open
\* segment as they are, and appends its text to the open segment exactly
\* once, after a blank line.
C20_ContinuationMergesOnce ==
    [][\A p \in ParagraphTags :
          (Handles(p) /\ OpenSegmentOfPrimary /\ ContinuationOnly(p)) =>
              /\ pc' = "paragraphs"
              /\ loop'.segments = loop.segments
              /\ loop'.part_seq = loop.part_seq
              /\ loop'.prev_speech_part =
                     [loop.prev_speech_part EXCEPT
                         !.speech_content = @ \o NL2 \o GetText(p)]]_vars

\* The open segment is owned by someone other than the primary speaker.
OpenSegmentOfOther ==
    /\ loop.prev_speech_part # NoPart
    /\ loop.prev_speech_part.talker_id # call.main_talker.id

\* C21: a paragraph with the continuation marker (and no interjection
\* marker), handled while the open segment is owned by someone other than
\* the primary speaker, pushes the open segment, advances part_seq by one
\* and opens a CONTINUATION segment of the primary speaker whose content,
\* once the paragraph is processed, is the paragraph's cleaned text.
C21_ContinuationOpensSegment ==
    [][\A p \in ParagraphTags :
          (/\ Handles(p)
           /\ OpenSegmentOfOther
           /\ ContinuationOnly(p)
           /\ call.main_talker.id # None) =>
              /\ pc' = "paragraphs"
              /\ loop'.segments = Append(loop.segments, loop.prev_speech_part)
              /\ loop'.part_seq = loop.part_seq + 1
              /\ loop'.prev_speech_part =
                     SpeechPart(parser, call.main_talker.id, call.speech_seq,
                                loop.part_seq + 1, "continuation",
                                CleanText(GetText(p)))]_vars

\* ---- the paragraph kinds of the classification, one marker each
General(p) == ~IsContinuation(p) /\ IsInterjection(p) = "GENERAL"

\* The segment a step of the loop opens for a paragraph.
Opened(talker_id, speech_part_type, content) ==
    SpeechPart(parser, talker_id, call.speech_seq, loop.part_seq + 1,
               speech_part_type, content)

\* The loop state after one further paragraph q, from the loop state st.
After(st, q) ==
    ParagraphStep(st, q, parser, call.speech_seq, call.main_talker,
                  call.interjections)

\* C22: a general interjection paragraph (no continuation marker) handled
\* while a segment is open pushes the open segment, advances part_seq by
\* one, opens an INTERJECTION segment with empty talker_id and empty
\* content and leaves the interjector index as it is; an attributable
\* interjection that comes next is attributed to the interjector it would
\* have had without the general interjection.
C22_GeneralInterjection ==
    [][\A p \in ParagraphTags :
          (Handles(p) /\ General(p) /\ loop.prev_speech_part # NoPart) =>
              /\ pc' = "paragraphs"
              /\ loop'.segments = Append(loop.segments, loop.prev_speech_part)
              /\ loop'.part_seq = loop.part_seq + 1
              /\ loop'.prev_speech_part = Opened(<<>>, "interjection", <<>>)
              /\ loop'.curr_interjection_ind = loop.curr_interjection_ind
              /\ \A q \in ParagraphTags :
                    Attributable(q) =>
                        LET with == After(loop', q)
                            without == After(loop, q)
                        IN  /\ with.raised = without.raised
                            /\ with.curr_interjection_ind
                                   <= loop.curr_interjection_ind + 1
                            /\ ~with.raised =>
                                   \/ /\ loop.curr_interjection_ind
                                             >= Len(call.interjections)
                                      /\ with = loop'
                                      /\ without = loop
                                   \/ /\ loop.curr_interjection_ind
                                             < Len(call.interjections)
                                      /\ with.prev_speech_part.talker_id =
                                             call.interjections[
                                                 loop.curr_interjection_ind
                                                     + 1].id
                                      /\ without.prev_speech_part.talker_id =
                                             with.prev_speech_part.talker_id]_vars

\* An ordinary paragraph, a general interjection and an attributable one
\* have been handled: the placeholder is closed and the first interjector
\* owns the open segment.
C22_Witness ==
    /\ pc = "paragraphs"
    /\ Len(paras) = 3
    /\ Unmarked(paras[1]) /\ General(paras[2]) /\ Attributable(paras[3])
    /\ Len(loop.segments) = 2
    /\ loop.segments[2].talker_id = <<>>
    /\ loop.segments[2].speech_content = <<>>
    /\ loop.segments[2].speech_part_type = "interjection"
    /\ loop.segments[2].part_seq = 1
    /\ loop.prev_speech_part.talker_id = call.interjections[1].id
    /\ loop.prev_speech_part.part_seq = 2
    /\ loop.curr_interjection_ind = 1

\* The paragraphs handled so far that carry the member or the office
\* marker of an interjection.
AttributableSoFar ==
    Cardinality({k \in 1..Len(paras) :
                    IsInterjection(paras[k]) \in {"MEMBER", "OFFICE"}})

\* C23: the k-th paragraph of a speech with a member or office
\* interjection marker, merged ones counted and general ones not, is
\* attributed to the k-th entry of the interjector list: once it is
\* handled, the open segment is owned by that entry.
C23_InterjectorsInOrder ==
    [][\A p \in ParagraphTags :
          (/\ Handles(p)
           /\ IsInterjection(p) \in {"MEMBER", "OFFICE"}
           /\ pc' = "paragraphs"
           /\ AttributableSoFar < Len(call.interjections)) =>
              loop'.prev_speech_part.talker_id =
                  call.interjections[AttributableSoFar + 1].id]_vars

\* The interjector that the loop reads for an attributable interjection
\* handled now owns the open segment.
NextInterjectorOwnsOpenSegment ==
    /\ loop.prev_speech_part # NoPart
    /\ loop.curr_interjection_ind < Len(call.interjections)
    /\ call.interjections[loop.curr_interjection_ind + 1].id =
           loop.prev_speech_part.talker_id

\* C24: an attributable interjection paragraph whose interjector is the
\* owner of the open segment opens no segment and leaves part_seq as it
\* is: its text is appended to the open segment after a blank line, and
\* the open segment keeps its type (and every other field).
C24_InterjectionOfOwnerMerges ==
    [][\A p \in ParagraphTags :
          (Handles(p) /\ Attributable(p) /\ NextInterjectorOwnsOpenSegment) =>
              /\ pc' = "paragraphs"
              /\ loop'.segments = loop.segments
              /\ loop'.part_seq = loop.part_seq
              /\ loop'.prev_speech_part =
                     [loop.prev_speech_part EXCEPT
                         !.speech_content = @ \o NL2 \o GetText(p)]
              /\ loop'.prev_speech_part.speech_part_type =
                     loop.prev_speech_part.speech_part_type]_vars

\* Two attributable interjections of one interjector in a row: the second
\* was merged into the INTERJECTION segment the first opened.
C24_Witness ==
    /\ pc = "paragraphs"
    /\ Len(paras) = 3
    /\ Unmarked(paras[1]) /\ Attributable(paras[2]) /\ Attributable(paras[3])
    /\ Len(call.interjections) >= 2
    /\ call.interjections[1].id = call.interjections[2].id
    /\ Len(loop.segments) = 1
    /\ loop.part_seq = 1
    /\ loop.prev_speech_part.part_seq = 1
    /\ loop.prev_speech_part.speech_part_type = "interjection"
    /\ loop.prev_speech_part.talker_id = call.interjections[1].id
    /\ loop.prev_speech_part.speech_content = ContentOf(2, 3)

\* The interjector list has no entry left for the loop to read.
Exhausted == loop.curr_interjection_ind >= Len(call.interjections)

\* C25: an attributable interjection paragraph handled while a segment is
\* open and the interjector list is exhausted is skipped: nothing is
\* raised and the open segment, part_seq, the interjector index and the
\* closed segments are as before.
C25_ExhaustedListSkips ==
    [][\A p \in ParagraphTags :
          (/\ Handles(p)
           /\ Attributable(p)
           /\ loop.prev_speech_part # NoPart
           /\ Exhausted) =>
              /\ pc' = "paragraphs"
              /\ ~loop'.raised
              /\ loop'.prev_speech_part = loop.prev_speech_part
              /\ loop'.part_seq = loop.part_seq
              /\ loop'.curr_interjection_ind = loop.curr_interjection_ind
              /\ loop'.segments = loop.segments]_vars

\* A speech with one interjector and two attributable interjections: the
\* first opened the interjector's segment, the second was skipped.
C25_Witness ==
    /\ pc = "paragraphs"
    /\ Len(paras) = 3
    /\ Unmarked(paras[1]) /\ Attributable(paras[2]) /\ Attributable(paras[3])
    /\ Len(call.interjections) = 1
    /\ loop.curr_interjection_ind = 1
    /\ Len(loop.segments) = 1
    /\ loop.part_seq = 1
    /\ loop.prev_speech_part.talker_id = call.interjections[1].id
    /\ loop.prev_speech_part.speech_content = ContentOf(2, 2)

\* C26: an unmarked paragraph handled while the open segment is owned by
\* someone other than the primary speaker (an interjector or the empty
\* placeholder of a general interjection) pushes the open segment,
\* advances part_seq by one and opens a segment of type SPEECH owned by
\* the primary speaker; handled while the open segment is the primary
\* speaker's, it is merged and no segment is opened.
C26_UnmarkedParagraph ==
    [][\A p \in ParagraphTags :
          (Handles(p) /\ Unmarked(p)) =>
              /\ OpenSegmentOfOther =>
                    /\ pc' = "paragraphs"
                    /\ loop'.segments =
                           Append(loop.segments, loop.prev_speech_part)
                    /\ loop'.part_seq = loop.part_seq + 1
                    /\ loop'.prev_speech_part =
                           Opened(call.main_talker.id, "speech",
                                  CleanText(GetText(p)))
                    /\ loop'.prev_speech_part.speech_part_type = "speech"
              /\ OpenSegmentOfPrimary =>
                    /\ pc' = "paragraphs"
                    /\ loop'.segments = loop.segments
                    /\ loop'.part_seq = loop.part_seq
                    /\ loop'.prev_speech_part =
                           [loop.prev_speech_part EXCEPT
                               !.speech_content = @ \o NL2 \o GetText(p)]]_vars

\* After an interjector's segment and after a general placeholder the
\* primary speaker resumed with an unmarked paragraph, and went on with a
\* second one that was merged.
C26_Witness ==
    /\ pc = "paragraphs"
    /\ Len(paras) = 4
    /\ Unmarked(paras[1]) /\ Unmarked(paras[3]) /\ Unmarked(paras[4])
    /\ Attributable(paras[2]) \/ General(paras[2])
    /\ Len(loop.segments) = 2
    /\ loop.segments[2].talker_id # call.main_talker.id
    /\ loop.segments[2].speech_part_type = "interjection"
    /\ loop.part_seq = 2
    /\ loop.prev_speech_part.talker_id = call.main_talker.id
    /\ loop.prev_speech_part.speech_part_type = "speech"
    /\ loop.prev_speech_part.part_seq = 2
    /\ loop.prev_speech_part.speech_content = ContentOf(3, 4)

\* The segments of the list s are numbered 0, 1, ... in list order and
\* carry the speech_seq of the call.
Numbered(s) ==
    \A i \in 1..Len(s) :
        /\ s[i].part_seq = i - 1
        /\ s[i].speech_seq = call.speech_seq

\* C27: whenever parse_speech returns, the returned list has the part_seq
\* values 0, 1, ..., n-1 in list order, holds every segment that was
\* opened exactly once (part_seq + 1 of them, the last the segment still
\* open at the end; none for a speech without paragraphs), and every
\* segment carries the speech_seq of the call.  While the loop runs, the
\* closed segments and the open one are numbered the same way.
C27_ReturnedSegmentsNumbered ==
    /\ pc = "paragraphs" =>
          /\ Numbered(Returned(loop))
          /\ loop.prev_speech_part = NoPart =>
                loop.segments = <<>> /\ loop.part_seq = 0
          /\ loop.prev_speech_part # NoPart =>
                /\ Len(loop.segments) = loop.part_seq
                /\ loop.prev_speech_part.part_seq = loop.part_seq
    /\ pc = "returned" =>
          /\ Numbered(loop.segments)
          /\ loop.prev_speech_part = NoPart => loop.segments = <<>>
          /\ loop.prev_speech_part # NoPart =>
                /\ Len(loop.segments) = loop.part_seq + 1
                /\ loop.segments[Len(loop.segments)] = loop.prev_speech_part
                /\ \A i, j \in 1..Len(loop.segments) :
                      loop.segments[i] = loop.segments[j] => i = j

\* parse_speech returned four segments: a speech of four paragraphs, each
\* of which opened a segment.
C27_Witness ==
    /\ pc = "returned"
    /\ Len(paras) = 4
    /\ Len(loop.segments) = 4
    /\ loop.segments[4].part_seq = 3
    /\ loop.segments[4].speech_seq = call.speech_seq
    /\ \E k \in 1..4 : General(paras[k])
    /\ \E k \in 1..4 : Attributable(paras[k])

\* No two neighbours of the list s have the same talker_id, unless it is
\* the empty one of the general-interjection placeholders.
NoRepeatedOwner(s) ==
    \A i \in 1..(Len(s) - 1) :
        s[i].talker_id = s[i + 1].talker_id => s[i].talker_id = <<>>

\* C28: in the list parse_speech returns (and in the list it would return
\* at any point of the loop) no two consecutive segments have the same
\* non-empty talker_id.
C28_NoConsecutiveSameOwner ==
    /\ pc = "paragraphs" => NoRepeatedOwner(Returned(loop))
    /\ pc = "returned" => NoRepeatedOwner(loop.segments)

\* Two paragraphs of the primary speaker, then two of one interjector:
\* parse_speech returned two segments, one each.
C28_Witness ==
    /\ pc = "returned"
    /\ Len(paras) = 4
    /\ Unmarked(paras[1]) /\ Unmarked(paras[2])
    /\ Attributable(paras[3]) /\ Attributable(paras[4])
    /\ Len(loop.segments) = 2
    /\ loop.segments[1].talker_id = call.main_talker.id
    /\ loop.segments[1].speech_content = ContentOf(1, 2)
    /\ loop.segments[2].talker_id = call.interjections[1].id
    /\ loop.segments[2].speech_content = ContentOf(3, 4)

\* A <speech> without <p> whose talkers can be extracted.
EmptySpeech(speech_tag) ==
    /\ speech_tag.ps = <<>>
    /\ ExtractTalker(speech_tag.start) # Raised
    /\ ~ExtractTalkers(speech_tag.interjections).raised

\* C29: a speech without paragraphs, whether a direct child of a
\* first-level subdebate or inside a second-level subdebate, adds no
\* segment and does not abort the traversal: the loop it belongs to goes
\* on, and the speech has consumed its speech_seq.
C29_EmptySpeechTolerated ==
    [][ ( /\ Len(doc') = Len(doc) + 1
          /\ LastTag'.kind = "speech"
          /\ EmptySpeech(LastTag'.tag) )
        => /\ pc' = pc
           /\ pc' \in {"speeches_1", "speeches_2"}
           /\ parser'.parts = parser.parts
           /\ parser'.speech_ids = parser.speech_ids
           /\ parser'.speech_seq = parser.speech_seq + 1 ]_vars

\* The publications that s is due: the ids of the events published with a
\* topic that s had subscribed to by then.
Due(s) == {k \in 1..Len(published) : s \in bus.audience[k]}

\* The ids of the events that handle of s was called with, in the order of
\* the calls: the calls that ended, then the one in progress.
Called(s) ==
    LET sub == bus.subs[s]
        ended == [i \in 1..Len(sub.handled) |-> sub.handled[i].event.id]
    IN  IF sub.event = NoEvent THEN ended ELSE Append(ended, sub.event.id)

\* The sequence ids holds the n smallest elements of S in increasing
\* order, n its length.
FirstOf(ids, S) ==
    \A i \in 1..Len(ids) :
        /\ ids[i] \in S
        /\ Cardinality({k \in S : k <= ids[i]}) = i

\* handle of s was called with the event k and the call ended.
HandledBy(s, k) ==
    \E i \in 1..Len(bus.subs[s].handled) :
        bus.subs[s].handled[i].event.id = k

\* The handler of s ends by raising in this step.
Raises(s) ==
    /\ Len(bus'.subs[s].handled) = Len(bus.subs[s].handled) + 1
    /\ bus'.subs[s].handled[Len(bus'.subs[s].handled)].outcome = "raised"

\* C30: a LocalSubscriber's handle is called with the events published to
\* its topics after it subscribed, once each and in the order of
\* publication, and with no other event; a handler that raises leaves the
\* worker waiting for the next event; and in the end every such event has
\* been handled, those queued behind an event whose handler raised
\* included, by every subscriber whose worker was not cancelled.
C30_HandledOnceInOrder ==
    /\ [](\A s \in Subscribers : FirstOf(Called(s), Due(s)))
    /\ [][\A s \in Subscribers :
              Raises(s) => /\ bus'.subs[s].worker = "waiting"
                           /\ bus'.subs[s].queue = bus.subs[s].queue]_vars
    /\ <>[](\A s \in Subscribers :
                \/ bus.subs[s].worker = "cancelled"
                \/ \A k \in Due(s) : HandledBy(s, k))

\* A subscriber was published two events of its topics: the handler
\* raised on the first and was still called with the second, which ended
\* too.
C30_Witness ==
    \E s \in Subscribers :
        /\ Cardinality(Due(s)) >= 2
        /\ Len(bus.subs[s].handled) >= 2
        /\ bus.subs[s].handled[1].outcome = "raised"
        /\ bus.subs[s].handled[2].outcome = "returned"
        /\ bus.subs[s].handled[1].event.id < bus.subs[s].handled[2].event.id
        /\ bus.subs[s].worker = "waiting"

=============================================================================
